---- MODULE Spec2Model ----
(***************************************************************************)
(* Message bridge routing engine of nexus_back: inbound webhook            *)
(* processing (messaging.services), the CompanyBridgeConfiguration API     *)
(* (companies.bridge_views), the BridgeManager adapter registry and AI     *)
(* reply path (matrix_integration), and the routed conversation API.       *)
(*                                                                         *)
(* Rows are modelled by the fields the handlers read and write.  External  *)
(* collaborators (platform HTTP APIs, the Matrix homeserver, the AI        *)
(* scorer) are inputs chosen with \E from the outcomes the calling code    *)
(* distinguishes.  Confidence values are tenths (8 stands for 0.8).        *)
(***************************************************************************)
EXTENDS Integers, Sequences, FiniteSets, TLC

\* ------------------------------------------------------------------ bounds
NumDeliveries == 2
MaxBatch == 2
MaxMessages == 3
MaxConfigs == 1
MaxPlatformCalls == 2

\* ------------------------------------------------------------- input sets
Tenants == {"acme", "globex"}
Platforms == {"whatsapp", "telegram"}
ExternalIds == {"+1555", "+1666"}
MessageIds == {"wamid.1", "wamid.2"}
Deliveries == 1..NumDeliveries

VARIABLES
    conversations,      \* messaging.Conversation rows, in insertion order
    messages,           \* messaging.Message rows, in insertion order
    pc,                 \* per delivery: position inside the handler it runs
    conv,               \* per delivery: the local row of get_or_create (0 = unset)
    payload,            \* per delivery: the message_data or request being processed
    configs,            \* companies.CompanyBridgeConfiguration rows
    nextConfigId,       \* next primary key of a configuration row
    roomLinked,         \* (company, platform) pairs whose bridge room was initialised
    response,           \* the last HTTP response produced by a view
    connections,        \* matrix_integration.BridgeConnection status per (company, platform)
    platform_services,  \* BridgeManager.platform_services (its keys)
    bridgeMessages,     \* matrix_integration.BridgeMessage rows
    aiConfig,           \* matrix_integration.AIAssistantConfig per company
    platformCalls,      \* number of send requests that reached a platform
    vault,              \* the encryption secret and the stored credential blobs
    webhookEvents,      \* BridgeWebhook / CompanyBridgeWebhook rows
    matrixRooms,        \* the homeserver's rooms: the alias of each, in creation order
    lastOp              \* record of the operation that acted last

vars == <<conversations, messages, pc, conv, payload, configs, nextConfigId,
          roomLinked, response, connections, platform_services, bridgeMessages,
          aiConfig, platformCalls, vault, webhookEvents, matrixRooms,
          lastOp>>

\* ------------------------------------------------- messaging.Conversation
\* Indices of the rows matching the lookup (company, external_id, platform).
ConvMatches(convs, c, x, p) ==
    {i \in 1..Len(convs) : /\ convs[i].company = c
                           /\ convs[i].external_id = x
                           /\ convs[i].platform = p}

ConvExists(convs, c, x, p) == ConvMatches(convs, c, x, p) # {}

ConvGet(convs, c, x, p) == CHOOSE i \in ConvMatches(convs, c, x, p) : TRUE

NewConversation(c, x, p) ==
    [company |-> c, external_id |-> x, platform |-> p, status |-> "active"]

\* The table without its unique constraint: no INSERT is ever refused.
UniqueViolationDropped(convs, c, x, p) == FALSE

\* unique_together = ['company', 'external_id', 'platform']: the INSERT of a
\* second row for the triple raises IntegrityError.
UniqueViolation(convs, c, x, p) == ConvExists(convs, c, x, p)

\* Conversation.objects.get_or_create run without interleaving.
GetOrCreate(convs, c, x, p) ==
    IF ConvExists(convs, c, x, p)
    THEN [conversations |-> convs, id |-> ConvGet(convs, c, x, p)]
    ELSE [conversations |-> Append(convs, NewConversation(c, x, p)),
          id |-> Len(convs) + 1]

NewMessage(cid, dir, mid, origin) ==
    [conversation |-> cid, direction |-> dir, platform_message_id |-> mid,
     origin |-> origin]

NoOp == [op |-> "none"]
\* No AIAssistantConfig row; the field defaults are auto_respond = False and
\* confidence_threshold = 0.8.
NoAIConfig == [exists |-> FALSE, auto_respond |-> FALSE, confidence_threshold |-> 8]
NoResponse == [op |-> "none", user |-> "none", code |-> 0, data |-> {}]

\* settings.BRIDGE_ENCRYPTION_KEY when the environment does not set it: 38
\* characters, not a Fernet key.
ShippedKey ==
    [text |-> "your-32-char-encryption-key-here-12345", len |-> 38, fernet |-> FALSE]

\* An empty encrypted_config / encrypted_data column.
NoBlob == [alg |-> "none", key |-> "none", data |-> {}]

\* No secret in the environment, nothing stored.
EmptyVault ==
    [secret |-> ShippedKey, encrypted_config |-> NoBlob, encrypted_data |-> NoBlob]

\* ------------------------------------------------------------- initial state
InitStore ==
    /\ conversations = <<>>
    /\ messages = <<>>
    /\ configs = {}
    /\ nextConfigId = 1
    /\ roomLinked = {}
    /\ response = NoResponse
    /\ connections = [k \in Tenants \X Platforms |-> "none"]
    /\ platform_services = {}
    /\ bridgeMessages = <<>>
    /\ aiConfig = [t \in Tenants |-> NoAIConfig]
    /\ platformCalls = 0
    /\ vault = EmptyVault
    /\ webhookEvents = <<>>
    /\ matrixRooms = <<>>
    /\ lastOp = NoOp

IdleDeliveries ==
    /\ pc = [d \in Deliveries |-> "done"]
    /\ conv = [d \in Deliveries |-> 0]
    /\ payload = [d \in Deliveries |->
                    [company |-> "acme", platform |-> "whatsapp",
                     from |-> "+1555", id |-> "wamid.1"]]

\* ------------------------------------------ concurrent inbound deliveries
\* Each delivery runs _process_incoming_message for one message_data; the
\* database statements of different deliveries interleave.
InitUpsert ==
    /\ InitStore
    /\ pc = [d \in Deliveries |-> "get"]
    /\ conv = [d \in Deliveries |-> 0]
    /\ payload \in [Deliveries ->
                      [company : Tenants, platform : Platforms,
                       from : ExternalIds, id : MessageIds]]

UnchangedBridge ==
    UNCHANGED <<configs, nextConfigId, roomLinked, response, connections,
                platform_services, bridgeMessages, aiConfig, platformCalls, vault,
                webhookEvents, matrixRooms>>

\* get_or_create, first statement: SELECT by the lookup.
GocGet(d) ==
    /\ pc[d] = "get"
    /\ LET m == payload[d] IN
       IF ConvExists(conversations, m.company, m.from, m.platform)
       THEN /\ conv' = [conv EXCEPT ![d] =
                          ConvGet(conversations, m.company, m.from, m.platform)]
            /\ pc' = [pc EXCEPT ![d] = "message"]
       ELSE /\ pc' = [pc EXCEPT ![d] = "create"]
            /\ UNCHANGED conv
    /\ UNCHANGED <<conversations, messages, payload, lastOp>>
    /\ UnchangedBridge

\* get_or_create, second statement: INSERT inside a savepoint; on
\* IntegrityError the row is fetched again.
GocCreate(d) ==
    /\ pc[d] = "create"
    /\ LET m == payload[d] IN
       IF UniqueViolation(conversations, m.company, m.from, m.platform)
       THEN /\ conv' = [conv EXCEPT ![d] =
                          ConvGet(conversations, m.company, m.from, m.platform)]
            /\ lastOp' = [op |-> "get_or_create", outcome |-> "IntegrityError"]
            /\ UNCHANGED conversations
       ELSE /\ conversations' =
                  Append(conversations, NewConversation(m.company, m.from, m.platform))
            /\ conv' = [conv EXCEPT ![d] = Len(conversations) + 1]
            /\ lastOp' = [op |-> "get_or_create", outcome |-> "created"]
    /\ pc' = [pc EXCEPT ![d] = "message"]
    /\ UNCHANGED <<messages, payload>>
    /\ UnchangedBridge

\* Message.objects.create(conversation=conversation, direction="incoming", ...)
MessageCreate(d) ==
    /\ pc[d] = "message"
    /\ messages' = Append(messages,
                          NewMessage(conv[d], "incoming", payload[d].id, "webhook"))
    /\ pc' = [pc EXCEPT ![d] = "done"]
    /\ UNCHANGED <<conversations, conv, payload, lastOp>>
    /\ UnchangedBridge

NextUpsert ==
    \E d \in Deliveries : GocGet(d) \/ GocCreate(d) \/ MessageCreate(d)

SpecUpsert == InitUpsert /\ [][NextUpsert]_vars

AllDone == \A d \in Deliveries : pc[d] = "done"

\* C1: concurrent deliveries for one (tenant, platform, external id) leave
\* exactly one Conversation row for the triple, and every delivery's Message
\* belongs to that row.
OneConversationPerTriple ==
    /\ \A d \in Deliveries :
          Cardinality(ConvMatches(conversations, payload[d].company,
                                  payload[d].from, payload[d].platform)) <= 1
    /\ AllDone =>
          /\ Len(messages) = NumDeliveries
          /\ \A d \in Deliveries :
                LET m == payload[d]
                    row == ConvMatches(conversations, m.company, m.from, m.platform)
                IN /\ Cardinality(row) = 1
                   /\ \E i \in 1..Len(messages) :
                         /\ messages[i].platform_message_id = m.id
                         /\ messages[i].conversation \in row
          /\ \A i \in 1..Len(messages) :
                messages[i].conversation \in 1..Len(conversations)

\* Two deliveries of one triple both missed the SELECT, the later INSERT was
\* refused, and every delivery has finished.
UpsertRaceWitness ==
    /\ AllDone
    /\ lastOp = [op |-> "get_or_create", outcome |-> "IntegrityError"]
    /\ \A d1, d2 \in Deliveries :
          /\ payload[d1].company = payload[d2].company
          /\ payload[d1].from = payload[d2].from
          /\ payload[d1].platform = payload[d2].platform
    /\ Len(conversations) = 1
    /\ Len(messages) = NumDeliveries

\* ------------------------------------------------------ inbound webhooks
\* One message_data of a WhatsApp payload (value.messages[]).
MessageData == [from : ExternalIds, id : MessageIds]

MsgSeqs == UNION {[1..n -> MessageData] : n \in 0..MaxBatch}

\* The platform gives every message of a payload its own id.
DistinctIds(ms) == \A i, j \in 1..Len(ms) : ms[i].id = ms[j].id => i = j

\* webhook_data["entry"]: a list of entries, each a list of changes, each
\* carrying value.messages.  Shapes: no entry, one entry with one change, two
\* entries with one change each.
WhatsAppPayloads ==
    {<<>>}
    \cup {<< <<ms>> >> : ms \in {q \in MsgSeqs : DistinctIds(q)}}
    \cup {<< <<p[1]>>, <<p[2]>> >> :
             p \in {q \in MsgSeqs \X MsgSeqs :
                      /\ Len(q[1]) + Len(q[2]) <= MaxBatch
                      /\ DistinctIds(q[1] \o q[2])}}

RECURSIVE Concat(_)
Concat(ss) == IF ss = <<>> THEN <<>> ELSE Head(ss) \o Concat(Tail(ss))

\* for entry in entry[]: for change in changes[]: for message_data in messages
PayloadMessages(data) == Concat([i \in 1..Len(data) |-> Concat(data[i])])

\* _process_incoming_message: get_or_create the conversation, then create the
\* Message.  No lookup of an earlier Message with the same platform id is made.
ProcessIncomingMessage(st, m, company, platform) ==
    LET goc == GetOrCreate(st.conversations, company, m.from, platform)
    IN [conversations |-> goc.conversations,
        messages |-> Append(st.messages,
                            NewMessage(goc.id, "incoming", m.id, "webhook"))]

RECURSIVE ProcessMessages(_, _, _, _)
ProcessMessages(st, ms, company, platform) ==
    IF ms = <<>> THEN st
    ELSE ProcessMessages(ProcessIncomingMessage(st, Head(ms), company, platform),
                         Tail(ms), company, platform)

CompanyIds == Tenants \cup {"unknown", ""}

\* The in-flight deliveries, and the stored webhook events: BridgeWebhook
\* and CompanyBridgeWebhook rows are read by the status view and written by
\* no view, service or task.
UnchangedDeliveries == UNCHANGED <<pc, conv, payload, webhookEvents, matrixRooms>>

UnchangedVault == UNCHANGED vault

UnchangedConfigs == UNCHANGED <<configs, nextConfigId, roomLinked>>

UnchangedManager ==
    UNCHANGED <<connections, platform_services, bridgeMessages, aiConfig, platformCalls>>

Store == [conversations |-> conversations, messages |-> messages]

\* WhatsAppWebhookView.post followed by WhatsAppService.process_webhook.
WhatsAppWebhookPost(company_id, data) ==
    /\ Len(messages) + Len(PayloadMessages(data)) <= MaxMessages
    /\ IF company_id = ""
       THEN /\ response' = [op |-> "whatsapp_webhook", user |-> company_id,
                            code |-> 400, data |-> {}]
            /\ lastOp' = [op |-> "whatsapp_webhook", company |-> company_id,
                          platform |-> "whatsapp", created |-> 0, batch |-> <<>>]
            /\ UNCHANGED <<conversations, messages>>
       ELSE IF data = <<>> \/ company_id \notin Tenants
       THEN /\ response' = [op |-> "whatsapp_webhook", user |-> company_id,
                            code |-> 400, data |-> {}]
            /\ lastOp' = [op |-> "whatsapp_webhook", company |-> company_id,
                          platform |-> "whatsapp", created |-> 0, batch |-> <<>>]
            /\ UNCHANGED <<conversations, messages>>
       ELSE LET st == ProcessMessages(Store, PayloadMessages(data),
                                      company_id, "whatsapp")
            IN /\ conversations' = st.conversations
               /\ messages' = st.messages
               /\ response' = [op |-> "whatsapp_webhook", user |-> company_id,
                               code |-> 200, data |-> {}]
               /\ lastOp' = [op |-> "whatsapp_webhook", company |-> company_id,
                             platform |-> "whatsapp",
                             created |-> Len(st.messages) - Len(messages),
                             batch |-> PayloadMessages(data)]
    /\ UnchangedDeliveries /\ UnchangedVault /\ UnchangedConfigs /\ UnchangedManager

\* The message of a customer's first contact.
FirstContact == [from |-> "+1555", id |-> "wamid.1"]

\* A Telegram update: a message, or a callback_query (logged and dropped).
TelegramUpdates ==
    {[kind |-> k, message |-> FirstContact] : k \in {"message", "callback_query"}}

\* TelegramWebhookView.post followed by TelegramService.process_webhook.
TelegramWebhookPost(company_id, update) ==
    /\ Len(messages) + 1 <= MaxMessages
    /\ IF company_id \notin Tenants
       THEN /\ response' = [op |-> "telegram_webhook", user |-> company_id,
                            code |-> 400, data |-> {}]
            /\ lastOp' = [op |-> "telegram_webhook", company |-> company_id,
                          platform |-> "telegram", created |-> 0]
            /\ UNCHANGED <<conversations, messages>>
       ELSE IF update.kind = "message"
       THEN LET st == ProcessIncomingMessage(Store, update.message,
                                             company_id, "telegram")
            IN /\ conversations' = st.conversations
               /\ messages' = st.messages
               /\ response' = [op |-> "telegram_webhook", user |-> company_id,
                               code |-> 200, data |-> {}]
               /\ lastOp' = [op |-> "telegram_webhook", company |-> company_id,
                             platform |-> "telegram", created |-> 1]
       ELSE /\ response' = [op |-> "telegram_webhook", user |-> company_id,
                            code |-> 200, data |-> {}]
            /\ lastOp' = [op |-> "telegram_webhook", company |-> company_id,
                          platform |-> "telegram", created |-> 0]
            /\ UNCHANGED <<conversations, messages>>
    /\ UnchangedDeliveries /\ UnchangedVault /\ UnchangedConfigs /\ UnchangedManager

InitInbound == InitStore /\ IdleDeliveries

NextInbound ==
    \/ \E c \in CompanyIds, data \in WhatsAppPayloads : WhatsAppWebhookPost(c, data)
    \/ \E c \in CompanyIds, u \in TelegramUpdates : TelegramWebhookPost(c, u)

SpecInbound == InitInbound /\ [][NextInbound]_vars

\* The company and platform of the conversation a Message row belongs to.
MessageCompany(i) == conversations[messages[i].conversation].company
MessagePlatform(i) == conversations[messages[i].conversation].platform

\* C2: however often a payload is delivered, each platform message id is
\* recorded as at most one incoming Message per tenant and platform.
ReplayAddsNoMessage ==
    \A i, j \in 1..Len(messages) :
        /\ messages[i].direction = "incoming"
        /\ messages[j].direction = "incoming"
        /\ messages[i].platform_message_id = messages[j].platform_message_id
        /\ MessageCompany(i) = MessageCompany(j)
        /\ MessagePlatform(i) = MessagePlatform(j)
        => i = j

\* --------------------------------------- CompanyBridgeConfiguration API
\* STATUS_CHOICES of CompanyBridgeConfiguration.
StatusChoices == {"configured", "active", "inactive", "error", "pending"}

\* platform arguments of a request: the PLATFORM_CHOICES in scope, a string
\* that is no choice, and the missing argument.
PlatformArgs == Platforms \cup {"fax", ""}

\* PLATFORM_CHOICES of the configuration row: the platforms in scope and
\* Signal, whose connection test runs signal-cli.
PlatformChoices == Platforms \cup {"signal"}

ConfigIds == 1..MaxConfigs

\* A row keeps the fields the operations below branch on: the status,
\* whether credentials are stored (encrypted_config), error_message
\* (TextField(blank=True, null=True); "" stands for None, no message), and
\* the two timestamps test and activate set with timezone.now().
NewConfig(id, company, platform, status) ==
    [id |-> id, company |-> company, platform |-> platform, status |-> status,
     has_config |-> FALSE, error_message |-> "",
     setup_completed_at |-> "None", last_sync_at |-> "None"]

\* get_queryset: CompanyBridgeConfiguration.objects.filter(company=request.user.company)
ConfigQueryset(user) == {r \in configs : r.company = user}

\* get_object(): the row of the queryset with pk = id, else Http404.
ConfigFound(user, id) == \E r \in ConfigQueryset(user) : r.id = id

ConfigRow(user, id) == CHOOSE r \in ConfigQueryset(user) : r.id = id

ConfigFor(company, platform) ==
    {r \in configs : r.company = company /\ r.platform = platform}

\* The table without its unique constraint: no INSERT is ever refused.
ConfigUniqueViolationDropped(company, platform) == FALSE

\* unique_together = [['company', 'platform']]: the INSERT of a second row
\* for the pair raises IntegrityError.
ConfigUniqueViolation(company, platform) == ConfigFor(company, platform) # {}

ReplaceRow(old, new) == (configs \ {old}) \cup {new}

NotFound(op, user, id) ==
    /\ response' = [op |-> op, user |-> user, code |-> 404, data |-> {}]
    /\ lastOp' = [op |-> op, user |-> user, id |-> id, outcome |-> "not_found"]
    /\ UNCHANGED <<configs, nextConfigId, roomLinked>>

UnchangedStore == UNCHANGED <<conversations, messages>>

\* setup: get_or_create by (company, platform) with status 'pending'.
Setup(user, platform) ==
    /\ IF platform \notin PlatformChoices
       THEN /\ response' = [op |-> "setup", user |-> user, code |-> 400, data |-> {}]
            /\ lastOp' = [op |-> "setup", user |-> user, id |-> 0,
                          outcome |-> "invalid"]
            /\ UNCHANGED <<configs, nextConfigId>>
       ELSE IF ConfigFor(user, platform) # {}
       THEN LET r == CHOOSE x \in ConfigFor(user, platform) : TRUE IN
            /\ response' = [op |-> "setup", user |-> user,
                            code |-> IF r.status = "active" THEN 400 ELSE 200,
                            data |-> IF r.status = "active" THEN {} ELSE {r.id}]
            /\ lastOp' = [op |-> "setup", user |-> user, id |-> r.id,
                          outcome |-> "exists"]
            /\ UNCHANGED <<configs, nextConfigId>>
       ELSE /\ nextConfigId <= MaxConfigs
            /\ configs' = configs \cup
                            {NewConfig(nextConfigId, user, platform, "pending")}
            /\ nextConfigId' = nextConfigId + 1
            /\ response' = [op |-> "setup", user |-> user, code |-> 200,
                            data |-> {nextConfigId}]
            /\ lastOp' = [op |-> "setup", user |-> user, id |-> nextConfigId,
                          outcome |-> "created"]
    /\ UNCHANGED roomLinked
    /\ UnchangedStore /\ UnchangedDeliveries /\ UnchangedVault /\ UnchangedManager

\* create (ModelViewSet): 'status' is a writable serializer field;
\* perform_create sets the company.  unique_together (company, platform)
\* refuses a second row.
Create(user, platform, status) ==
    /\ IF platform \notin PlatformChoices
       THEN /\ response' = [op |-> "create", user |-> user, code |-> 400, data |-> {}]
            /\ lastOp' = [op |-> "create", user |-> user, id |-> 0,
                          outcome |-> "invalid"]
            /\ UNCHANGED <<configs, nextConfigId>>
       ELSE IF ConfigUniqueViolation(user, platform)
       THEN /\ response' = [op |-> "create", user |-> user, code |-> 500, data |-> {}]
            /\ lastOp' = [op |-> "create", user |-> user, id |-> 0,
                          outcome |-> "IntegrityError"]
            /\ UNCHANGED <<configs, nextConfigId>>
       ELSE /\ nextConfigId <= MaxConfigs
            /\ configs' = configs \cup
                            {NewConfig(nextConfigId, user, platform, status)}
            /\ nextConfigId' = nextConfigId + 1
            /\ response' = [op |-> "create", user |-> user, code |-> 201,
                            data |-> {nextConfigId}]
            /\ lastOp' = [op |-> "create", user |-> user, id |-> nextConfigId,
                          outcome |-> "created"]
    /\ UNCHANGED roomLinked
    /\ UnchangedStore /\ UnchangedDeliveries /\ UnchangedVault /\ UnchangedManager

\* update / partial_update (ModelViewSet): writes the submitted status; the
\* fields the request does not carry (error_message) keep their values.
Update(user, id, status) ==
    /\ IF ~ConfigFound(user, id) THEN NotFound("update", user, id)
       ELSE LET r == ConfigRow(user, id) IN
            /\ configs' = ReplaceRow(r, [r EXCEPT !.status = status])
            /\ response' = [op |-> "update", user |-> user, code |-> 200,
                            data |-> {id}]
            /\ lastOp' = [op |-> "update", user |-> user, id |-> id,
                          outcome |-> "saved"]
            /\ UNCHANGED <<nextConfigId, roomLinked>>
    /\ UnchangedStore /\ UnchangedDeliveries /\ UnchangedVault /\ UnchangedManager

\* destroy (ModelViewSet): deletes the row.
Destroy(user, id) ==
    /\ IF ~ConfigFound(user, id) THEN NotFound("destroy", user, id)
       ELSE /\ configs' = configs \ {ConfigRow(user, id)}
            /\ response' = [op |-> "destroy", user |-> user, code |-> 204,
                            data |-> {}]
            /\ lastOp' = [op |-> "destroy", user |-> user, id |-> id,
                          outcome |-> "deleted"]
            /\ UNCHANGED <<nextConfigId, roomLinked>>
    /\ UnchangedStore /\ UnchangedDeliveries /\ UnchangedVault /\ UnchangedManager

\* list (ModelViewSet): the serialized rows of the queryset.
List(user) ==
    /\ response' = [op |-> "list", user |-> user, code |-> 200,
                    data |-> {r.id : r \in ConfigQueryset(user)}]
    /\ lastOp' = [op |-> "list", user |-> user, id |-> 0, outcome |-> "ok"]
    /\ UNCHANGED <<configs, nextConfigId, roomLinked>>
    /\ UnchangedStore /\ UnchangedDeliveries /\ UnchangedVault /\ UnchangedManager

\* status: detail GET.
Status(user, id) ==
    /\ IF ~ConfigFound(user, id) THEN NotFound("status", user, id)
       ELSE /\ response' = [op |-> "status", user |-> user, code |-> 200,
                            data |-> {id}]
            /\ lastOp' = [op |-> "status", user |-> user, id |-> id,
                          outcome |-> "ok"]
            /\ UNCHANGED <<configs, nextConfigId, roomLinked>>
    /\ UnchangedStore /\ UnchangedDeliveries /\ UnchangedVault /\ UnchangedManager

\* The texts the failure branches put into error_message (str(e), 'Missing
\* access token ...', 'API test failed: ...'): the rows keep one text for all.
ErrorText == "API test failed"

\* configure: stores the credentials, sets 'configured' whatever the
\* current status and clears error_message; an exception while storing sets
\* 'error' and error_message = str(e).
Configure(user, id, valid, stored) ==
    /\ IF ~ConfigFound(user, id) THEN NotFound("configure", user, id)
       ELSE IF ~valid
       THEN /\ response' = [op |-> "configure", user |-> user, code |-> 400,
                            data |-> {}]
            /\ lastOp' = [op |-> "configure", user |-> user, id |-> id,
                          outcome |-> "invalid"]
            /\ UNCHANGED <<configs, nextConfigId, roomLinked>>
       ELSE LET r == ConfigRow(user, id) IN
            /\ configs' = ReplaceRow(r,
                  IF stored
                  THEN [r EXCEPT !.status = "configured", !.has_config = TRUE,
                                 !.error_message = ""]
                  ELSE [r EXCEPT !.status = "error",
                                 !.error_message = ErrorText])
            /\ response' = [op |-> "configure", user |-> user,
                            code |-> IF stored THEN 200 ELSE 500,
                            data |-> {}]
            /\ lastOp' = [op |-> "configure", user |-> user, id |-> id,
                          outcome |-> IF stored THEN "configured" ELSE "error"]
            /\ UNCHANGED <<nextConfigId, roomLinked>>
    /\ UnchangedStore /\ UnchangedDeliveries /\ UnchangedVault /\ UnchangedManager

\* matrix_service.initialize_company_bridge(...) as test and activate call
\* it: the function is a coroutine function and the call is not awaited, so
\* its body does not run; the rooms linked stay what they were.
RoomsAfterCall(company, platform) == roomLinked

\* _test_<platform>_connection: fails without stored credentials, else the
\* platform's answer decides.
TestResult(r, platformOk) == r.has_config /\ platformOk

\* The 'error' of a failed _test_<platform>_connection.
TestError(r) == ErrorText

\* test: on a successful test the row is saved as 'active' with
\* error_message = None and the room initialisation is called afterwards; on
\* a failed test the row is saved as 'error' with
\* error_message = test_result.get('error', 'Test failed').
Test(user, id, valid, platformOk) ==
    /\ IF ~ConfigFound(user, id) THEN NotFound("test", user, id)
       ELSE IF ~valid
       THEN /\ response' = [op |-> "test", user |-> user, code |-> 400, data |-> {}]
            /\ lastOp' = [op |-> "test", user |-> user, id |-> id,
                          outcome |-> "invalid"]
            /\ UNCHANGED <<configs, nextConfigId, roomLinked>>
       ELSE LET r == ConfigRow(user, id) IN
            IF TestResult(r, platformOk)
            THEN /\ configs' = ReplaceRow(r,
                       [r EXCEPT !.status = "active", !.error_message = "",
                                 !.setup_completed_at = "now",
                                 !.last_sync_at = "now"])
                 /\ roomLinked' = RoomsAfterCall(r.company, r.platform)
                 /\ response' = [op |-> "test", user |-> user, code |-> 200,
                                 data |-> {}]
                 /\ lastOp' = [op |-> "test", user |-> user, id |-> id,
                               outcome |-> "passed"]
                 /\ UNCHANGED nextConfigId
            ELSE /\ configs' = ReplaceRow(r,
                       [r EXCEPT !.status = "error",
                                 !.error_message = TestError(r)])
                 /\ response' = [op |-> "test", user |-> user, code |-> 400,
                                 data |-> {}]
                 /\ lastOp' = [op |-> "test", user |-> user, id |-> id,
                               outcome |-> "failed"]
                 /\ UNCHANGED <<nextConfigId, roomLinked>>
    /\ UnchangedStore /\ UnchangedDeliveries /\ UnchangedVault /\ UnchangedManager

\* An activate that does not look at the status.
CanActivateAny(r) == TRUE

\* activate: if config.status != 'configured' -> 400
CanActivate(r) == r.status = "configured"

\* activate: calls the room initialisation, then saves 'active' with both
\* timestamps.  The call builds a coroutine that is never awaited and
\* get_decrypted_config returns {} on every exception, so nothing in the try
\* block raises before the save; the except branch answers 500 and saves
\* nothing.
Activate(user, id) ==
    /\ IF ~ConfigFound(user, id) THEN NotFound("activate", user, id)
       ELSE LET r == ConfigRow(user, id) IN
            IF ~CanActivate(r)
            THEN /\ response' = [op |-> "activate", user |-> user, code |-> 400,
                                 data |-> {}]
                 /\ lastOp' = [op |-> "activate", user |-> user, id |-> id,
                               outcome |-> "refused"]
                 /\ UNCHANGED <<configs, nextConfigId, roomLinked>>
            ELSE /\ roomLinked' = RoomsAfterCall(r.company, r.platform)
                 /\ configs' = ReplaceRow(r,
                       [r EXCEPT !.status = "active",
                                 !.setup_completed_at = "now",
                                 !.last_sync_at = "now"])
                 /\ response' = [op |-> "activate", user |-> user, code |-> 200,
                                 data |-> {}]
                 /\ lastOp' = [op |-> "activate", user |-> user, id |-> id,
                               outcome |-> "active"]
                 /\ UNCHANGED nextConfigId
    /\ UnchangedStore /\ UnchangedDeliveries /\ UnchangedVault /\ UnchangedManager

\* subprocess.run([signal-cli, '--account', phone, 'listIdentities'],
\* timeout=10): exit status zero, a non-zero exit status, TimeoutExpired, or
\* another exception (signal-cli not installed).
SignalCliResults == {"zero", "nonzero", "TimeoutExpired", "OSError"}

\* _test_signal_connection: without a phone number the CLI is not run; every
\* outcome but exit status zero is {'success': False, 'error': ...}.
TestSignalConnection(has_phone, cli) ==
    IF ~has_phone THEN [success |-> FALSE, error |-> "Missing phone number",
                        cli |-> "not_run"]
    ELSE IF cli = "zero" THEN [success |-> TRUE, error |-> "", cli |-> cli]
    ELSE IF cli = "nonzero"
    THEN [success |-> FALSE, error |-> "Signal CLI test failed", cli |-> cli]
    ELSE IF cli = "TimeoutExpired"
    THEN [success |-> FALSE, error |-> "Signal CLI test timed out", cli |-> cli]
    ELSE [success |-> FALSE, error |-> "Signal CLI test error", cli |-> cli]

\* test on a row of platform 'signal': _test_bridge_connection dispatches to
\* _test_signal_connection and test saves 'active' or 'error' from
\* test_result['success'] alone.
TestSignal(user, id, cli) ==
    /\ ConfigFound(user, id)
    /\ ConfigRow(user, id).platform = "signal"
    /\ LET r == ConfigRow(user, id)
           test_result == TestSignalConnection(r.has_config, cli) IN
       /\ configs' = ReplaceRow(r,
             [r EXCEPT !.status = IF test_result.success THEN "active"
                                  ELSE "error",
                       !.error_message = test_result.error,
                       !.setup_completed_at =
                           IF test_result.success THEN "now" ELSE @,
                       !.last_sync_at =
                           IF test_result.success THEN "now" ELSE @])
       /\ roomLinked' = IF test_result.success
                        THEN RoomsAfterCall(r.company, r.platform)
                        ELSE roomLinked
       /\ response' = [op |-> "test", user |-> user,
                       code |-> IF test_result.success THEN 200 ELSE 400,
                       data |-> {}]
       /\ lastOp' = [op |-> "test_signal", user |-> user, id |-> id,
                     outcome |-> IF test_result.success THEN "passed"
                                 ELSE "failed",
                     cli |-> test_result.cli, error |-> test_result.error]
       /\ UNCHANGED nextConfigId
    /\ UnchangedStore /\ UnchangedDeliveries /\ UnchangedVault /\ UnchangedManager

\* deactivate: saves 'inactive' whatever the current status.
Deactivate(user, id) ==
    /\ IF ~ConfigFound(user, id) THEN NotFound("deactivate", user, id)
       ELSE LET r == ConfigRow(user, id) IN
            /\ configs' = ReplaceRow(r, [r EXCEPT !.status = "inactive"])
            /\ response' = [op |-> "deactivate", user |-> user, code |-> 200,
                            data |-> {}]
            /\ lastOp' = [op |-> "deactivate", user |-> user, id |-> id,
                          outcome |-> "inactive"]
            /\ UNCHANGED <<nextConfigId, roomLinked>>
    /\ UnchangedStore /\ UnchangedDeliveries /\ UnchangedVault /\ UnchangedManager

SetupFlow ==
    \/ \E u \in Tenants, p \in PlatformArgs : Setup(u, p)
    \/ \E u \in Tenants, id \in ConfigIds, valid, stored \in BOOLEAN :
          Configure(u, id, valid, stored)
    \/ \E u \in Tenants, id \in ConfigIds, valid, ok \in BOOLEAN :
          Test(u, id, valid, ok)
    \/ \E u \in Tenants, id \in ConfigIds : Activate(u, id)
    \/ \E u \in Tenants, id \in ConfigIds : Deactivate(u, id)

GenericViews ==
    \/ \E u \in Tenants, p \in PlatformArgs, s \in StatusChoices : Create(u, p, s)
    \/ \E u \in Tenants, id \in ConfigIds, s \in StatusChoices : Update(u, id, s)
    \/ \E u \in Tenants, id \in ConfigIds : Destroy(u, id)
    \/ \E u \in Tenants : List(u)
    \/ \E u \in Tenants, id \in ConfigIds : Status(u, id)

NextSetup == SetupFlow

SpecSetup == InitInbound /\ [][NextSetup]_vars

NextConfig == SetupFlow \/ GenericViews

SpecConfig == InitInbound /\ [][NextConfig]_vars

\* The status of the configuration row with the given id ("none": no row).
StatusOf(cfgs, id) ==
    IF \E r \in cfgs : r.id = id
    THEN (CHOOSE r \in cfgs : r.id = id).status
    ELSE "none"

\* The edges of the documented status machine.
DocumentedEdges ==
    {<<"pending", "configuring">>, <<"configuring", "configured">>,
     <<"pending", "configured">>, <<"configured", "active">>,
     <<"active", "error">>, <<"configured", "error">>, <<"error", "active">>,
     <<"active", "inactive">>, <<"configured", "inactive">>,
     <<"error", "inactive">>}

\* C5: whatever configuration API operation acts (setup, configure, test,
\* activate, deactivate, create, update), the status of an existing
\* configuration changes only along a documented edge.
StatusFollowsDocumentedEdges ==
    [][\A id \in ConfigIds :
          LET a == StatusOf(configs, id)
              b == StatusOf(configs', id)
          IN (a # "none" /\ b # "none" /\ a # b) => <<a, b>> \in DocumentedEdges]_vars

\* C6: a successful test of a pending configuration leaves it 'configured',
\* and a configuration becomes 'active' only when initialize_company_bridge
\* has succeeded for its company and platform.
ActiveOnlyAfterRoomLinked ==
    [][\A id \in ConfigIds :
          LET a == StatusOf(configs, id)
              b == StatusOf(configs', id)
          IN /\ (a = "pending" /\ lastOp'.op = "test" /\ lastOp'.id = id
                    /\ lastOp'.outcome = "passed") => b = "configured"
             /\ (a # "active" /\ b = "active") =>
                   \E r \in configs' :
                       r.id = id /\ <<r.company, r.platform>> \in roomLinked']_vars

\* ------------------------------------------------------------ model schemas
\* Declared fields of the Django models the services construct or read.
ConversationFields ==
    {"id", "company", "external_id", "platform", "participants", "status",
     "assigned_agent", "metadata", "created_at", "updated_at"}

MessageFields ==
    {"id", "conversation", "direction", "message_type", "content", "sender_info",
     "attachments", "metadata", "is_processed", "timestamp", "created_at"}

BridgeMessageFields ==
    {"id", "bridge", "matrix_room", "conversation", "external_message_id",
     "matrix_event_id", "content", "message_type", "raw_content", "direction",
     "sender_platform_id", "sender_name", "sender_matrix_id", "ai_processed",
     "ai_response", "ai_confidence", "processed", "error_message", "created_at"}

BridgeCredentialsFields ==
    {"id", "bridge", "encrypted_data", "encryption_version", "created_at",
     "updated_at"}

AIAssistantConfigFields ==
    {"id", "company", "bridge", "model_name", "system_prompt", "max_tokens",
     "temperature", "auto_respond", "escalate_to_human", "confidence_threshold",
     "response_delay_seconds", "typing_indicator", "created_at", "updated_at"}

\* A model constructor that takes any keyword.
ModelAcceptsAny(fields, kwargs) == TRUE

\* Model(**kwargs), objects.create(**kwargs): a keyword that names no field
\* raises TypeError.
ModelAccepts(fields, kwargs) == kwargs \subseteq fields

\* An instance on which every attribute read succeeds.
HasAttributeAny(fields, name) == TRUE

\* Reading instance.name: a name that is no field raises AttributeError.
HasAttribute(fields, name) == name \in fields

\* f(*args): more positional arguments than parameters raises TypeError.
CallBinds(params, nargs) == nargs <= params

\* ----------------------------------------------------------- outbound sends
\* What the platform answers to a send request.
SendOutcomes == {"ok", "auth_error", "error"}

UnchangedRegistry ==
    UNCHANGED <<connections, platform_services, bridgeMessages, aiConfig>>

\* The token WhatsAppService / TelegramService put into a request: read from
\* the Django settings in __init__; company_id is not consulted.
RequestToken(company_id, platform) ==
    IF platform = "whatsapp" THEN "settings.WHATSAPP_ACCESS_TOKEN"
    ELSE "settings.TELEGRAM_BOT_TOKEN"

\* messaging.tasks.send_message_task -> WhatsAppService.send_message /
\* TelegramService.send_message: the request is posted to the platform; no
\* configuration row is read or written and no Message is created.
SendMessageTask(platform, recipient, company_id, outcome) ==
    /\ IF platform \in Platforms
       THEN /\ platformCalls < MaxPlatformCalls
            /\ platformCalls' = platformCalls + 1
            /\ lastOp' = [op |-> "send_message_task", company |-> company_id,
                          platform |-> platform, to |-> recipient,
                          origin |-> "task", outcome |-> outcome,
                          token |-> RequestToken(company_id, platform)]
       ELSE /\ UNCHANGED platformCalls
            /\ lastOp' = [op |-> "send_message_task", company |-> company_id,
                          platform |-> platform, to |-> recipient,
                          origin |-> "task", outcome |-> "unknown_platform",
                          token |-> "none"]
    /\ UNCHANGED response
    /\ UnchangedStore /\ UnchangedDeliveries /\ UnchangedVault /\ UnchangedConfigs /\ UnchangedRegistry

\* What matrix_service.send_message_via_bridge returns.
MatrixResults == {"success", "failed"}

\* MatrixBridgeViewSet.send_message: sends into the bridged Matrix room and,
\* on success, get_or_creates the conversation and appends the outgoing
\* Message.
MatrixSendMessage(user, platform, recipient, result) ==
    /\ IF platform = ""
       THEN /\ response' = [op |-> "matrix_send", user |-> user, code |-> 400,
                            data |-> {}]
            /\ lastOp' = [op |-> "matrix_send", company |-> user,
                          platform |-> platform, to |-> recipient,
                          origin |-> "agent", outcome |-> "invalid",
                          token |-> "settings.MATRIX_ACCESS_TOKEN"]
            /\ UNCHANGED <<platformCalls, conversations, messages>>
       ELSE IF result = "success"
       THEN LET goc == GetOrCreate(conversations, user, recipient, platform) IN
            /\ platformCalls < MaxPlatformCalls
            /\ Len(messages) < MaxMessages
            /\ platformCalls' = platformCalls + 1
            /\ conversations' = goc.conversations
            /\ messages' = Append(messages,
                                  NewMessage(goc.id, "outgoing", "none", "agent"))
            /\ response' = [op |-> "matrix_send", user |-> user, code |-> 200,
                            data |-> {}]
            /\ lastOp' = [op |-> "matrix_send", company |-> user,
                          platform |-> platform, to |-> recipient,
                          origin |-> "agent", outcome |-> "ok",
                          token |-> "settings.MATRIX_ACCESS_TOKEN"]
       ELSE /\ response' = [op |-> "matrix_send", user |-> user, code |-> 400,
                            data |-> {}]
            /\ lastOp' = [op |-> "matrix_send", company |-> user,
                          platform |-> platform, to |-> recipient,
                          origin |-> "agent", outcome |-> "error",
                          token |-> "settings.MATRIX_ACCESS_TOKEN"]
            /\ UNCHANGED <<platformCalls, conversations, messages>>
    /\ UnchangedDeliveries /\ UnchangedVault /\ UnchangedConfigs /\ UnchangedRegistry

\* ------------------------------------------------------------ BridgeManager
\* connect_whatsapp / connect_telegram: creates the BridgeConnection
\* ('pending') and its BridgeCredentials, then asyncio.create_task without a
\* running event loop raises RuntimeError; initialize_bridge does not run.
BridgeConnect(user, platform) ==
    /\ connections[<<user, platform>>] = "none"
    /\ connections' = [connections EXCEPT ![<<user, platform>>] = "pending"]
    /\ response' = [op |-> "bridge_connect", user |-> user, code |-> 500,
                    data |-> {}]
    /\ lastOp' = [op |-> "bridge_connect", company |-> user,
                  platform |-> platform]
    /\ UNCHANGED <<platform_services, bridgeMessages, aiConfig, platformCalls>>
    /\ UnchangedStore /\ UnchangedDeliveries /\ UnchangedVault /\ UnchangedConfigs

\* disconnect: get_object, status 'disconnected' saved, then the read of
\* bridge_manager.active_bridges raises AttributeError; platform_services is
\* not touched.
BridgeDisconnect(user, owner, platform) ==
    /\ IF user # owner \/ connections[<<owner, platform>>] = "none"
       THEN /\ response' = [op |-> "bridge_disconnect", user |-> user,
                            code |-> 404, data |-> {}]
            /\ UNCHANGED connections
       ELSE /\ connections' = [connections EXCEPT
                                 ![<<owner, platform>>] = "disconnected"]
            /\ response' = [op |-> "bridge_disconnect", user |-> user,
                            code |-> 500, data |-> {}]
    /\ lastOp' = [op |-> "bridge_disconnect", company |-> owner,
                  platform |-> platform]
    /\ UNCHANGED <<platform_services, bridgeMessages, aiConfig, platformCalls>>
    /\ UnchangedStore /\ UnchangedDeliveries /\ UnchangedVault /\ UnchangedConfigs

\* initialize_bridge for a connection whose credentials row exists: reading
\* credentials.credentials_json comes before the adapter is registered; an
\* exception sets the connection to 'error'.  'constructed' counts the adapter
\* instances the call builds; 'initialized' is what became of
\* initialize_connection.
InitializeBridge(conns, services, k, initOk) ==
    IF ~HasAttribute(BridgeCredentialsFields, "credentials_json")
    THEN [connections |-> [conns EXCEPT ![k] = "error"],
          platform_services |-> services, ok |-> FALSE, constructed |-> 0,
          initialized |-> "raised"]
    ELSE [connections |-> [conns EXCEPT ![k] =
                              IF initOk THEN "connected" ELSE "error"],
          platform_services |-> services \cup {k}, ok |-> initOk,
          constructed |-> 1,
          initialized |-> IF initOk THEN "success" ELSE "failure"]

\* bool() of the coroutine object a call of an async function returns when
\* it is not awaited.
CoroutineIsTruthy == TRUE

\* matrix_integration.tasks.initialize_bridge_connection: the task calls
\* bridge_manager.initialize_bridge(bridge) without awaiting it, so the body
\* of initialize_bridge does not run and 'result' is the coroutine object;
\* the status is saved from its truth value.
InitializeBridgeConnectionTask(company, platform) ==
    LET k == <<company, platform>>
        result == CoroutineIsTruthy
    IN /\ connections[k] # "none"
       /\ connections' = [connections EXCEPT
                            ![k] = IF result THEN "connected" ELSE "error"]
       /\ lastOp' = [op |-> "initialize_bridge_connection",
                     company |-> company, platform |-> platform,
                     constructed |-> 0, initialized |-> "not_run"]
       /\ UNCHANGED <<response, platform_services, bridgeMessages, aiConfig,
                      platformCalls>>
       /\ UnchangedStore /\ UnchangedDeliveries /\ UnchangedVault /\ UnchangedConfigs

\* BridgeManager.send_message: initialises the adapter when the key is not
\* registered, sends, and records a BridgeMessage on success.  A failed send
\* only returns False.
BridgeSendMessage(company, platform, recipient, initOk, outcome) ==
    LET k == <<company, platform>>
        init == IF k \in platform_services
                THEN [connections |-> connections,
                      platform_services |-> platform_services, ok |-> TRUE,
                      constructed |-> 0, initialized |-> "not_run"]
                ELSE InitializeBridge(connections, platform_services, k, initOk)
        recorded == outcome = "ok" /\
                    ModelAccepts(BridgeMessageFields,
                                 {"bridge", "external_id", "content",
                                  "direction", "status"})
    IN /\ connections[k] # "none"
       /\ connections' = init.connections
       /\ platform_services' = init.platform_services
       /\ IF init.ok
          THEN /\ platformCalls < MaxPlatformCalls
               /\ platformCalls' = platformCalls + 1
               /\ bridgeMessages' =
                     IF recorded
                     THEN Append(bridgeMessages,
                                 [bridge |-> k, direction |-> "outbound",
                                  ai_processed |-> FALSE, ai_confidence |-> 0])
                     ELSE bridgeMessages
               /\ lastOp' = [op |-> "bridge_send", company |-> company,
                             platform |-> platform, to |-> recipient,
                             origin |-> "bridge", outcome |-> outcome,
                             token |-> "none",
                             constructed |-> init.constructed,
                             initialized |-> init.initialized]
          ELSE /\ UNCHANGED <<platformCalls, bridgeMessages>>
               /\ lastOp' = [op |-> "bridge_send", company |-> company,
                             platform |-> platform, to |-> recipient,
                             origin |-> "bridge", outcome |-> "not_initialized",
                             token |-> "none",
                             constructed |-> init.constructed,
                             initialized |-> init.initialized]
       /\ UNCHANGED <<response, aiConfig>>
       /\ UnchangedStore /\ UnchangedDeliveries /\ UnchangedVault /\ UnchangedConfigs

\* ----------------------------------------------------------------- AI paths
\* Confidence values a scorer returns (AIService.generate_response,
\* _parse_ai_response): 0.0, 0.5, 0.7 and a model-supplied value.
Confidences == {0, 5, 7, 9}

\* confidence_threshold values an AI configuration is saved with.
Thresholds == {5, 8}

\* Parameters of matrix_integration AIService.generate_response after self.
GenerateResponseParams == 3

\* Positional arguments process_pending_ai_requests passes to it.
PendingTaskArgs == 5

\* The gating data of a company at the time an AI path runs.
Gate(company) ==
    IF company \in Tenants
    THEN [auto_respond |-> aiConfig[company].exists /\ aiConfig[company].auto_respond,
          threshold |-> aiConfig[company].confidence_threshold]
    ELSE [auto_respond |-> FALSE, threshold |-> NoAIConfig.confidence_threshold]

AIOp(op, company, platform, to, scored, c, keyword, outcome) ==
    [op |-> op, company |-> company, platform |-> platform, to |-> to,
     origin |-> "ai", scored |-> scored, confidence |-> c, keyword |-> keyword,
     auto_respond |-> Gate(company).auto_respond,
     threshold |-> Gate(company).threshold, outcome |-> outcome]

\* BridgeConnectionViewSet.ai_config (POST): update_or_create of the
\* company's AIAssistantConfig through one of its bridges.
SetAIConfig(user, owner, platform, auto, thr) ==
    /\ IF user # owner \/ connections[<<owner, platform>>] = "none"
       THEN /\ response' = [op |-> "ai_config", user |-> user, code |-> 404,
                            data |-> {}]
            /\ UNCHANGED aiConfig
       ELSE /\ aiConfig' = [aiConfig EXCEPT ![owner] =
                              [exists |-> TRUE, auto_respond |-> auto,
                               confidence_threshold |-> thr]]
            /\ response' = [op |-> "ai_config", user |-> user, code |-> 200,
                            data |-> {}]
    /\ lastOp' = [op |-> "ai_config", company |-> owner, platform |-> platform]
    /\ UNCHANGED <<connections, platform_services, bridgeMessages, platformCalls>>
    /\ UnchangedStore /\ UnchangedDeliveries /\ UnchangedVault /\ UnchangedConfigs

\* Keywords of Conversation.objects.get_or_create in _save_incoming_message
\* (lookup and defaults).
SaveConversationKwargs ==
    {"external_id", "platform", "company", "title", "created_at", "updated_at"}

\* Keywords of Message.objects.create in _save_incoming_message and in
\* _send_ai_response.
SaveMessageKwargs ==
    {"conversation", "sender_id", "sender_name", "text", "message_type",
     "direction", "status", "metadata"}

\* telegram_webhook -> AITelegramService.process_incoming_message: saves the
\* incoming message, and when ai_settings["enabled"] generates a reply and
\* sends it; an exception anywhere ends the processing.
TelegramAIWebhook(company_id, chat_id, hasText, enabled, keyword, sendOk) ==
    LET known == company_id \in Tenants
        found == known /\ ConvExists(conversations, company_id, chat_id, "telegram")
        convOk == hasText /\ known /\
                  (found \/ ModelAccepts(ConversationFields, SaveConversationKwargs))
        goc == GetOrCreate(conversations, company_id, chat_id, "telegram")
        saved == convOk /\ ModelAccepts(MessageFields, SaveMessageKwargs)
        msgs1 == IF saved
                 THEN Append(messages, NewMessage(goc.id, "incoming", "none", "webhook"))
                 ELSE messages
        sends == saved /\ enabled
        replySaved == sends /\ sendOk /\ ModelAccepts(MessageFields, SaveMessageKwargs)
    IN /\ Len(messages) + 2 <= MaxMessages
       /\ sends => platformCalls < MaxPlatformCalls
       /\ conversations' = IF convOk THEN goc.conversations ELSE conversations
       /\ messages' = IF replySaved
                      THEN Append(msgs1, NewMessage(goc.id, "outgoing", "none", "ai"))
                      ELSE msgs1
       /\ platformCalls' = IF sends THEN platformCalls + 1 ELSE platformCalls
       /\ response' = [op |-> "ai_telegram_webhook", user |-> company_id,
                       code |-> 200, data |-> {}]
       /\ lastOp' = AIOp("ai_telegram_webhook", company_id, "telegram", chat_id,
                         sends, 0, keyword,
                         IF ~hasText THEN "invalid"
                         ELSE IF ~saved THEN "save_failed"
                         ELSE IF ~enabled THEN "ai_disabled"
                         ELSE "replied")
       /\ UnchangedDeliveries /\ UnchangedVault /\ UnchangedConfigs /\ UnchangedRegistry

\* messaging.tasks.generate_ai_response_task: scores the message; the result
\* is set on attributes that are no Message fields, so save() stores none of
\* it; no reply is sent and the conversation is not touched.
GenerateAIResponseTask(i, c, keyword) ==
    /\ i \in 0..Len(messages)
    /\ lastOp' = IF i = 0
                 THEN AIOp("generate_ai_response_task", "unknown", "none", "none",
                           FALSE, 0, keyword, "failed")
                 ELSE AIOp("generate_ai_response_task", MessageCompany(i),
                           MessagePlatform(i),
                           conversations[messages[i].conversation].external_id,
                           TRUE, c, keyword, "scored")
    /\ UNCHANGED <<response, platformCalls>>
    /\ UnchangedStore /\ UnchangedDeliveries /\ UnchangedVault /\ UnchangedConfigs /\ UnchangedRegistry

\* process_pending_ai_requests: for each unprocessed inbound BridgeMessage
\* whose company has auto_respond, calls the scorer; at or above the
\* threshold the row is marked processed.  The send is a TODO.
ProcessPendingAIRequests(c) ==
    LET handled(m) ==
            /\ ~m.ai_processed /\ m.direction = "inbound"
            /\ aiConfig[m.bridge[1]].exists /\ aiConfig[m.bridge[1]].auto_respond
            /\ CallBinds(GenerateResponseParams, PendingTaskArgs)
            /\ c >= aiConfig[m.bridge[1]].confidence_threshold
    IN /\ bridgeMessages' =
             [i \in DOMAIN bridgeMessages |->
                 IF handled(bridgeMessages[i])
                 THEN [bridgeMessages[i] EXCEPT !.ai_processed = TRUE,
                                                !.ai_confidence = c]
                 ELSE bridgeMessages[i]]
       /\ lastOp' = AIOp("process_pending_ai_requests", "all", "none", "none",
                         FALSE, c, FALSE,
                         IF \E i \in DOMAIN bridgeMessages : handled(bridgeMessages[i])
                         THEN "processed" ELSE "idle")
       /\ UNCHANGED <<response, connections, platform_services, aiConfig,
                      platformCalls>>
       /\ UnchangedStore /\ UnchangedDeliveries /\ UnchangedVault /\ UnchangedConfigs

\* BridgeManager._process_with_ai: returns when the company has no
\* AIAssistantConfig; otherwise reads config.enabled, generates the reply and
\* sends it through BridgeManager.send_message.  Exceptions are logged.
ProcessWithAI(company, platform, c, keyword, initOk) ==
    LET k == <<company, platform>>
        reads == aiConfig[company].exists /\
                 HasAttribute(AIAssistantConfigFields, "enabled")
        init == IF k \in platform_services
                THEN [connections |-> connections,
                      platform_services |-> platform_services, ok |-> TRUE,
                      constructed |-> 0, initialized |-> "not_run"]
                ELSE InitializeBridge(connections, platform_services, k, initOk)
    IN /\ connections[k] # "none"
       /\ IF reads
          THEN /\ connections' = init.connections
               /\ platform_services' = init.platform_services
               /\ init.ok => platformCalls < MaxPlatformCalls
               /\ platformCalls' = IF init.ok THEN platformCalls + 1
                                   ELSE platformCalls
          ELSE UNCHANGED <<connections, platform_services, platformCalls>>
       /\ lastOp' = AIOp("process_with_ai", company, platform, "none",
                         reads, c, keyword,
                         IF ~aiConfig[company].exists THEN "no_config"
                         ELSE IF ~reads THEN "AttributeError"
                         ELSE IF init.ok THEN "replied" ELSE "not_initialized")
       /\ UNCHANGED <<response, bridgeMessages, aiConfig>>
       /\ UnchangedStore /\ UnchangedDeliveries /\ UnchangedVault /\ UnchangedConfigs

\* ------------------------------------------------- routed conversation API
\* ConversationViewSet.retrieve (messaging/views/conversation_views.py): no
\* queryset is consulted; any pk is answered 200 with an empty message list.
ConversationRetrieve(user, pk) ==
    /\ response' = [op |-> "conversation_retrieve", user |-> user, code |-> 200,
                    data |-> {}]
    /\ lastOp' = [op |-> "conversation_retrieve", user |-> user, id |-> pk,
                  outcome |-> "ok"]
    /\ UnchangedStore /\ UnchangedDeliveries /\ UnchangedVault /\ UnchangedConfigs
    /\ UnchangedRegistry /\ UNCHANGED platformCalls

\* ConversationViewSet.list: an empty list for every user.
ConversationList(user) ==
    /\ response' = [op |-> "conversation_list", user |-> user, code |-> 200,
                    data |-> {}]
    /\ lastOp' = [op |-> "conversation_list", user |-> user, id |-> 0,
                  outcome |-> "ok"]
    /\ UnchangedStore /\ UnchangedDeliveries /\ UnchangedVault /\ UnchangedConfigs
    /\ UnchangedRegistry /\ UNCHANGED platformCalls

\* --------------------------------------------------- routed message API
\* The actions of the MessageViewSet of messaging/views.py, a ModelViewSet;
\* the messaging/views package shadows that module.
ShadowedMessageViewSetActions ==
    {"list", "retrieve", "create", "update", "partial_update", "destroy"}

\* The actions of the MessageViewSet the router registers
\* (messaging/views/message_views.py, a ViewSet with three stub methods).
MessageViewSetActions == {"list", "retrieve", "create"}

RemoveAt(q, i) == [j \in 1..(Len(q) - 1) |-> IF j < i THEN q[j] ELSE q[j + 1]]

\* A request to /messages/: an action the viewset does not define is answered
\* 405; list, retrieve and create answer fixed data and touch no row; destroy
\* (ModelViewSet) deletes the row of the user's company.
MessageRequest(user, act, pk) ==
    /\ IF act \notin MessageViewSetActions
       THEN /\ response' = [op |-> "message_api", user |-> user, code |-> 405,
                            data |-> {}]
            /\ UNCHANGED messages
       ELSE IF act = "destroy"
       THEN IF pk \in 1..Len(messages) /\ MessageCompany(pk) = user
            THEN /\ messages' = RemoveAt(messages, pk)
                 /\ response' = [op |-> "message_api", user |-> user,
                                 code |-> 204, data |-> {}]
            ELSE /\ response' = [op |-> "message_api", user |-> user,
                                 code |-> 404, data |-> {}]
                 /\ UNCHANGED messages
       ELSE /\ response' = [op |-> "message_api", user |-> user,
                            code |-> IF act = "create" THEN 201 ELSE 200,
                            data |-> {}]
            /\ UNCHANGED messages
    /\ lastOp' = [op |-> "message_api", user |-> user, action |-> act, id |-> pk]
    /\ UNCHANGED <<conversations, platformCalls>>
    /\ UnchangedDeliveries /\ UnchangedVault /\ UnchangedConfigs /\ UnchangedRegistry

\* ------------------------------------------------------- webhook parsing
\* matrix_integration platform_services.WhatsAppService.process_incoming_message:
\* takes entry[0] only and returns from inside the loops at the first
\* message; None when there is none (or entry is an empty list).
ParseWebhook(data) ==
    IF data = <<>> THEN <<>>
    ELSE LET ms == Concat(data[1])
         IN IF ms = <<>> THEN <<>> ELSE <<Head(ms)>>

ParseWebhookCall(data) ==
    /\ lastOp' = [op |-> "parse_webhook", data |-> data,
                  events |-> ParseWebhook(data)]
    /\ UNCHANGED <<response, platformCalls>>
    /\ UnchangedStore /\ UnchangedDeliveries /\ UnchangedVault
    /\ UnchangedConfigs /\ UnchangedRegistry

NextParse ==
    \/ \E data \in WhatsAppPayloads : ParseWebhookCall(data)
    \/ \E data \in WhatsAppPayloads : WhatsAppWebhookPost("acme", data)

SpecParse == InitInbound /\ [][NextParse]_vars

\* C14: parsing a WhatsApp payload yields one event per message of the
\* payload, in payload order, and processing a payload appends one incoming
\* Message per message of the payload, in payload order.
ParseAndRecordAll ==
    [][/\ lastOp'.op = "parse_webhook" =>
             lastOp'.events = PayloadMessages(lastOp'.data)
       /\ (lastOp'.op = "whatsapp_webhook" /\ response'.code = 200) =>
             /\ Len(messages') = Len(messages) + Len(lastOp'.batch)
             /\ \A i \in 1..Len(lastOp'.batch) :
                   /\ messages'[Len(messages) + i].direction = "incoming"
                   /\ messages'[Len(messages) + i].platform_message_id =
                         lastOp'.batch[i].id]_vars

\* ------------------------------------------------- per-tenant credentials
\* The access token each tenant submits to configure.
TenantToken == [t \in Tenants |-> IF t = "acme" THEN "token-a" ELSE "token-b"]

\* The token stored (encrypted_config) for the tenant's configuration of the
\* platform; "none" when nothing is stored.
StoredToken(company, platform) ==
    IF company \in Tenants /\ \E r \in ConfigFor(company, platform) : r.has_config
    THEN TenantToken[company]
    ELSE "none"

\* Two tenants configure and send.
NextCredentials ==
    \/ \E u \in Tenants, p \in Platforms : Setup(u, p)
    \/ \E u \in Tenants, id \in ConfigIds : Configure(u, id, TRUE, TRUE)
    \/ \E u \in Tenants, id \in ConfigIds, ok \in BOOLEAN : Test(u, id, TRUE, ok)
    \/ \E u \in Tenants, id \in ConfigIds : Destroy(u, id)
    \/ \E u \in Tenants, p \in Platforms, out \in SendOutcomes :
          SendMessageTask(p, FirstContact.from, u, out)

SpecCredentials == InitInbound /\ [][NextCredentials]_vars

\* C11: a send that reaches the platform for a tenant T with stored
\* credentials carries the token stored for T's own configuration of that
\* platform (so it does not depend on any other tenant's), and two tenants whose
\* stored tokens differ are never given the same request token.
CredentialIsolation ==
    [][(lastOp'.op \in {"send_message_task", "matrix_send", "bridge_send"}
          /\ platformCalls' # platformCalls
          /\ StoredToken(lastOp'.company, lastOp'.platform) # "none") =>
          /\ lastOp'.token = StoredToken(lastOp'.company, lastOp'.platform)
          /\ \A t, u \in Tenants :
                (/\ StoredToken(t, lastOp'.platform) # "none"
                 /\ StoredToken(u, lastOp'.platform) # "none"
                 /\ StoredToken(t, lastOp'.platform) # StoredToken(u, lastOp'.platform))
                   => RequestToken(t, lastOp'.platform) # RequestToken(u, lastOp'.platform)]_vars

\* --------------------------------------------------------- credential vault
\* A key Fernet.generate_key() returns: 44 url-safe base64 characters.
GeneratedKey == [text |-> "fernet-generated-key", len |-> 44, fernet |-> TRUE]

\* A passphrase shorter than 32 characters.
ShortKey == [text |-> "passphrase", len |-> 10, fernet |-> FALSE]

\* Values of BRIDGE_ENCRYPTION_KEY.
SecretKeys == {ShippedKey, GeneratedKey, ShortKey}

\* Keys of a credential map: strings, and an integer as Python also accepts.
CredentialKeys ==
    {[kind |-> "str", text |-> "access_token"], [kind |-> "int", text |-> "1"]}

CredentialValues == {"token-a", "token-b"}

\* dicts: sets of <<key, value>> with each key at most once.
CredentialMaps ==
    {c \in SUBSET (CredentialKeys \X CredentialValues) :
        \A p, q \in c : p[1] = q[1] => p = q}

StringKeyed(c) == \A p \in c : p[1].kind = "str"

\* json.dumps: every key is written as a string.
JsonDumps(c) == {<<[kind |-> "str", text |-> p[1].text], p[2]>> : p \in c}

\* json.loads of a JSON object.
JsonLoads(text) == text

\* The JSON text stored as it is.
PlainText(text) == [alg |-> "plain", key |-> "none", data |-> text]

\* set_encrypted_config / get_decrypted_config: key_string padded with '0' or
\* cut to 32 characters, then base64.urlsafe_b64encode: always a Fernet key.
DerivedKey(secret) ==
    [text |-> secret.text, len |-> 44, fernet |-> TRUE]

\* Fernet(key).encrypt(data).
FernetEncrypt(key, data) == [alg |-> "fernet", key |-> key.text, data |-> data]

\* Fernet(key).decrypt(blob): InvalidToken unless the blob was encrypted
\* under the same key.
FernetDecrypt(key, blob) ==
    IF blob.alg = "fernet" /\ blob.key = key.text
    THEN [raised |-> FALSE, value |-> blob.data]
    ELSE [raised |-> TRUE, value |-> {}]

\* CompanyBridgeConfiguration.set_encrypted_config (cryptography is
\* importable: matrix_integration.models imports it at load time).
SetEncryptedConfig(secret, c) == FernetEncrypt(DerivedKey(secret), JsonDumps(c))

\* CompanyBridgeConfiguration.get_decrypted_config: {} when nothing is
\* stored, and {} on any exception.
GetDecryptedConfig(secret, blob) ==
    IF blob = NoBlob
    THEN [raised |-> FALSE, value |-> {}]
    ELSE LET d == FernetDecrypt(DerivedKey(secret), blob)
         IN IF d.raised
            THEN [raised |-> FALSE, value |-> {}]
            ELSE [raised |-> FALSE, value |-> JsonLoads(d.value)]

\* BridgeCredentials.encrypt_credentials: Fernet(settings key) raises
\* ValueError unless the setting itself is a Fernet key.
EncryptCredentials(secret, c) ==
    IF secret.fernet
    THEN [raised |-> FALSE, blob |-> FernetEncrypt(secret, JsonDumps(c))]
    ELSE [raised |-> TRUE, blob |-> NoBlob]

\* BridgeCredentials.decrypt_credentials.
DecryptCredentials(secret, blob) ==
    IF ~secret.fernet
    THEN [raised |-> TRUE, value |-> {}]
    ELSE LET d == FernetDecrypt(secret, blob)
         IN IF d.raised THEN d
            ELSE [raised |-> FALSE, value |-> JsonLoads(d.value)]

UnchangedOutsideVault ==
    UNCHANGED <<conversations, messages, pc, conv, payload, configs,
                nextConfigId, roomLinked, response, connections,
                platform_services, bridgeMessages, aiConfig, platformCalls,
                webhookEvents, matrixRooms>>

VaultOp(op, input, result) ==
    [op |-> op, input |-> input, raised |-> result.raised, value |-> result.value]

\* The process is started with BRIDGE_ENCRYPTION_KEY = k (settings.py reads
\* the environment; without the variable the shipped default is used).
SetSecret(k) ==
    /\ k # vault.secret
    /\ vault' = [vault EXCEPT !.secret = k]
    /\ lastOp' = VaultOp("set_secret", {}, [raised |-> FALSE, value |-> {}])
    /\ UnchangedOutsideVault

SetEncryptedConfigCall(c) ==
    /\ vault' = [vault EXCEPT !.encrypted_config = SetEncryptedConfig(vault.secret, c)]
    /\ lastOp' = VaultOp("set_encrypted_config", c, [raised |-> FALSE, value |-> {}])
    /\ UnchangedOutsideVault

GetDecryptedConfigCall ==
    /\ lastOp' = VaultOp("get_decrypted_config", {},
                         GetDecryptedConfig(vault.secret, vault.encrypted_config))
    /\ UNCHANGED vault
    /\ UnchangedOutsideVault

EncryptCredentialsCall(c) ==
    LET r == EncryptCredentials(vault.secret, c) IN
    /\ vault' = IF r.raised THEN vault ELSE [vault EXCEPT !.encrypted_data = r.blob]
    /\ lastOp' = VaultOp("encrypt_credentials", c, [raised |-> r.raised, value |-> {}])
    /\ UnchangedOutsideVault

DecryptCredentialsCall ==
    /\ lastOp' = VaultOp("decrypt_credentials", {},
                         DecryptCredentials(vault.secret, vault.encrypted_data))
    /\ UNCHANGED vault
    /\ UnchangedOutsideVault

NextVault ==
    \/ \E k \in SecretKeys : SetSecret(k)
    \/ \E c \in CredentialMaps : SetEncryptedConfigCall(c)
    \/ GetDecryptedConfigCall
    \/ \E c \in CredentialMaps : EncryptCredentialsCall(c)
    \/ DecryptCredentialsCall

SpecVault == InitInbound /\ [][NextVault]_vars

\* C12: after set_encrypted_config(c) for a string-keyed map c,
\* get_decrypted_config() returns exactly c and the stored blob is not the
\* plain JSON; after encrypt_credentials(c), which does not raise,
\* decrypt_credentials() returns exactly c and the blob is not the plain JSON.
CredentialRoundTrip ==
    /\ (lastOp.op = "set_encrypted_config" /\ StringKeyed(lastOp.input)) =>
          /\ GetDecryptedConfig(vault.secret, vault.encrypted_config) =
                [raised |-> FALSE, value |-> lastOp.input]
          /\ vault.encrypted_config # PlainText(JsonDumps(lastOp.input))
    /\ (lastOp.op = "encrypt_credentials" /\ StringKeyed(lastOp.input)) =>
          /\ ~lastOp.raised
          /\ DecryptCredentials(vault.secret, vault.encrypted_data) =
                [raised |-> FALSE, value |-> lastOp.input]
          /\ vault.encrypted_data # PlainText(JsonDumps(lastOp.input))

\* C13: when a stored blob cannot be decrypted with the current secret,
\* get_decrypted_config raises an error and does not return an empty map.
VaultFailsClosed ==
    (/\ lastOp.op = "get_decrypted_config"
     /\ vault.encrypted_config # NoBlob
     /\ FernetDecrypt(DerivedKey(vault.secret), vault.encrypted_config).raised) =>
        lastOp.raised /\ lastOp.value # {}

\* -------------------------------------------------- concurrent setup calls
\* The response of setup once get_or_create has returned the row.
SetupResponse(user, r, created) ==
    IF ~created /\ r.status = "active"
    THEN [op |-> "setup", user |-> user, code |-> 400, data |-> {}]
    ELSE [op |-> "setup", user |-> user, code |-> 200, data |-> {r.id}]

\* setup, first statement of get_or_create: SELECT by (company, platform);
\* a hit is answered at once.
SetupGet(d) ==
    /\ pc[d] = "setup_get"
    /\ LET m == payload[d] IN
       IF ConfigFor(m.company, m.platform) # {}
       THEN LET r == CHOOSE x \in ConfigFor(m.company, m.platform) : TRUE IN
            /\ conv' = [conv EXCEPT ![d] = r.id]
            /\ pc' = [pc EXCEPT ![d] = "done"]
            /\ response' = SetupResponse(m.company, r, FALSE)
            /\ lastOp' = [op |-> "setup", user |-> m.company, id |-> r.id,
                          outcome |-> "exists"]
       ELSE /\ pc' = [pc EXCEPT ![d] = "setup_create"]
            /\ lastOp' = [op |-> "setup", user |-> m.company, id |-> 0,
                          outcome |-> "missed"]
            /\ UNCHANGED <<conv, response>>
    /\ UNCHANGED <<configs, nextConfigId, roomLinked, payload, webhookEvents,
                   matrixRooms>>
    /\ UnchangedStore /\ UnchangedVault /\ UnchangedManager

\* setup, second statement of get_or_create: INSERT with status 'pending'
\* inside a savepoint; on IntegrityError the row is fetched again.
SetupCreate(d) ==
    /\ pc[d] = "setup_create"
    /\ LET m == payload[d] IN
       IF ConfigUniqueViolation(m.company, m.platform)
       THEN LET r == CHOOSE x \in ConfigFor(m.company, m.platform) : TRUE IN
            /\ conv' = [conv EXCEPT ![d] = r.id]
            /\ response' = SetupResponse(m.company, r, FALSE)
            /\ lastOp' = [op |-> "setup", user |-> m.company, id |-> r.id,
                          outcome |-> "IntegrityError"]
            /\ UNCHANGED <<configs, nextConfigId>>
       ELSE LET r == NewConfig(nextConfigId, m.company, m.platform, "pending") IN
            /\ configs' = configs \cup {r}
            /\ nextConfigId' = nextConfigId + 1
            /\ conv' = [conv EXCEPT ![d] = r.id]
            /\ response' = SetupResponse(m.company, r, TRUE)
            /\ lastOp' = [op |-> "setup", user |-> m.company, id |-> r.id,
                          outcome |-> "created"]
    /\ pc' = [pc EXCEPT ![d] = "done"]
    /\ UNCHANGED <<roomLinked, payload, webhookEvents, matrixRooms>>
    /\ UnchangedStore /\ UnchangedVault /\ UnchangedManager

\* Every delivery is a setup request about to run.
InitSetupRace ==
    /\ InitStore
    /\ pc = [d \in Deliveries |-> "setup_get"]
    /\ conv = [d \in Deliveries |-> 0]
    /\ payload \in [Deliveries ->
                      [company : Tenants, platform : Platforms,
                       from : {FirstContact.from}, id : {FirstContact.id}]]

\* Interleaved setup calls, with direct creations (any status) and
\* sequential setup calls in between.
NextSetupRace ==
    \/ \E d \in Deliveries : SetupGet(d) \/ SetupCreate(d)
    \/ \E u \in Tenants, p \in Platforms, st \in {"pending", "active"} :
          Create(u, p, st)
    \/ \E u \in Tenants, p \in Platforms : Setup(u, p)

SpecSetupRace == InitSetupRace /\ [][NextSetupRace]_vars

\* ------------------------------------------------- inbound normalisation
\* The handlers of the three messaging services with the columns they fill
\* from the platform event: message_type, timestamp, and created_at
\* (auto_now_add).  An event is a dict: a key that is absent is absent from
\* the record's DOMAIN.
MaxHistoryRows == 11
MaxTimeline == 3
MaxNormalized == 2

\* Arrival time of the first message, in seconds.
ClockStart == 10

\* Platform timestamps: before the epoch, the epoch, two past times, a time
\* far in the future.
PlatformTimes == {-1, 0, 8, 9, 99}

\* timezone.now() when the next row is inserted.
Arrival(msgs) == ClockStart + Len(msgs)

\* The content key of a WhatsApp message_data; a reaction carries none of the
\* keys the handler branches on.
WhatsAppContentKeys == {"text", "image", "document", "reaction"}

WhatsAppEvent(kind, hasTs, ts) ==
    [k \in {"from", "id", kind} \cup (IF hasTs THEN {"timestamp"} ELSE {}) |->
        IF k = "timestamp" THEN ts
        ELSE IF k = "from" THEN FirstContact.from
        ELSE IF k = "id" THEN FirstContact.id
        ELSE kind]

WhatsAppEvents ==
    {WhatsAppEvent(k, h, t) : k \in WhatsAppContentKeys, h \in BOOLEAN,
                              t \in PlatformTimes}

\* datetime.fromtimestamp(int(message_data.get("timestamp", 0)))
WhatsAppTimestamp(m) == IF "timestamp" \in DOMAIN m THEN m.timestamp ELSE 0

\* if "text" ... elif "image" ... elif "document" ...; message_type starts
\* as "text".
WhatsAppMessageType(m) ==
    IF "text" \in DOMAIN m THEN "text"
    ELSE IF "image" \in DOMAIN m THEN "image"
    ELSE IF "document" \in DOMAIN m THEN "document"
    ELSE "text"

StoredMessage(cid, mid, message_type, timestamp, created_at) ==
    [conversation |-> cid, direction |-> "incoming", platform_message_id |-> mid,
     origin |-> "webhook", message_type |-> message_type,
     timestamp |-> timestamp, created_at |-> created_at]

\* What a handler did with an event.
NormalizeOp(platform, company, event, subtype, has_timestamp, ts, created) ==
    [op |-> "process_incoming", platform |-> platform, company |-> company,
     event |-> event, subtype |-> subtype, has_timestamp |-> has_timestamp,
     platform_timestamp |-> ts, arrival |-> Arrival(messages),
     created |-> created]

\* Appends the row a handler creates for the event.
StoreInbound(company, external_id, platform, mid, message_type, timestamp) ==
    LET goc == GetOrCreate(conversations, company, external_id, platform)
    IN /\ conversations' = goc.conversations
       /\ messages' = Append(messages,
                             StoredMessage(goc.id, mid, message_type, timestamp,
                                           Arrival(messages)))

UnchangedByNormalize ==
    /\ UNCHANGED <<response, platformCalls>>
    /\ UnchangedDeliveries /\ UnchangedVault /\ UnchangedConfigs /\ UnchangedRegistry

\* WhatsAppService._process_incoming_message for one message_data.
WhatsAppProcessIncoming(company, m) ==
    /\ Len(messages) < MaxHistoryRows
    /\ StoreInbound(company, m.from, "whatsapp", m.id, WhatsAppMessageType(m),
                    WhatsAppTimestamp(m))
    /\ lastOp' = NormalizeOp("whatsapp", company, m,
                             CHOOSE k \in WhatsAppContentKeys : k \in DOMAIN m,
                             "timestamp" \in DOMAIN m, WhatsAppTimestamp(m), 1)
    /\ UnchangedByNormalize

\* The content key of a Telegram message; a sticker carries none of the keys
\* the handler branches on.
TelegramContentKeys == {"text", "photo", "document", "voice", "sticker"}

TelegramMessage(kind, hasDate, ts) ==
    [k \in {"chat", "message_id", kind} \cup (IF hasDate THEN {"date"} ELSE {}) |->
        IF k = "date" THEN ts
        ELSE IF k = "chat" THEN FirstContact.from
        ELSE IF k = "message_id" THEN FirstContact.id
        ELSE kind]

\* A Telegram update carries a message or a callback_query.
TelegramEvents ==
    {[message |-> TelegramMessage(k, h, t)] :
        k \in TelegramContentKeys, h \in BOOLEAN, t \in PlatformTimes}
    \cup {[callback_query |-> "button"]}

TelegramMessageType(m) ==
    IF "text" \in DOMAIN m THEN "text"
    ELSE IF "photo" \in DOMAIN m THEN "image"
    ELSE IF "document" \in DOMAIN m THEN "document"
    ELSE IF "voice" \in DOMAIN m THEN "voice"
    ELSE "text"

\* TelegramService.process_webhook: a message is handed to
\* _process_incoming_message, where message_data["date"] raises KeyError
\* when absent (before any row is written); a callback_query is logged.
TelegramProcessWebhook(company, update) ==
    /\ Len(messages) < MaxHistoryRows
    /\ IF "message" \in DOMAIN update
       THEN LET m == update.message
                subtype == CHOOSE k \in TelegramContentKeys : k \in DOMAIN m
            IN IF "date" \in DOMAIN m
               THEN /\ StoreInbound(company, m.chat, "telegram", m.message_id,
                                    TelegramMessageType(m), m.date)
                    /\ lastOp' = NormalizeOp("telegram", company, update, subtype,
                                             TRUE, m.date, 1)
               ELSE /\ UnchangedStore
                    /\ lastOp' = NormalizeOp("telegram", company, update, subtype,
                                             FALSE, 0, 0)
       ELSE /\ UnchangedStore
            /\ lastOp' = NormalizeOp("telegram", company, update, "callback_query",
                                     FALSE, 0, 0)
    /\ UnchangedByNormalize

\* The content of an Instagram message: text, or attachments whose first
\* type is image, video, audio or one the handler does not branch on.
InstagramContentKinds == {"text", "image", "video", "audio", "share"}

InstagramMessage(kind) ==
    IF kind = "text" THEN [mid |-> FirstContact.id, text |-> kind]
    ELSE [mid |-> FirstContact.id, attachments |-> kind]

\* A messaging event (timestamp in milliseconds) carries a message or a
\* postback.
InstagramEvent(key, kind, hasTs, ts) ==
    [k \in {"sender", key} \cup (IF hasTs THEN {"timestamp"} ELSE {}) |->
        IF k = "timestamp" THEN ts * 1000
        ELSE IF k = "sender" THEN FirstContact.from
        ELSE IF k = "message" THEN InstagramMessage(kind)
        ELSE "button"]

InstagramEvents ==
    {InstagramEvent("message", k, h, t) :
        k \in InstagramContentKinds, h \in BOOLEAN, t \in PlatformTimes}
    \cup {InstagramEvent("postback", "none", TRUE, 9)}

\* datetime.fromtimestamp(event_data["timestamp"] / 1000)
InstagramTimestamp(e) == e.timestamp \div 1000

InstagramMessageType(msg) ==
    IF "text" \in DOMAIN msg THEN "text"
    ELSE IF "attachments" \in DOMAIN msg /\
            msg.attachments \in {"image", "video", "audio"}
    THEN msg.attachments
    ELSE "text"

InstagramSubtype(e) ==
    IF "message" \in DOMAIN e
    THEN (IF "text" \in DOMAIN e.message THEN "text" ELSE e.message.attachments)
    ELSE "postback"

\* InstagramService.process_webhook for one messaging event: a message is
\* handed to _process_incoming_message, where event_data["timestamp"] raises
\* KeyError when absent (before any row is written); a postback is logged.
InstagramProcessWebhook(company, e) ==
    /\ Len(messages) < MaxHistoryRows
    /\ IF "message" \in DOMAIN e /\ "timestamp" \in DOMAIN e
       THEN /\ StoreInbound(company, e.sender, "instagram", e.message.mid,
                            InstagramMessageType(e.message), InstagramTimestamp(e))
            /\ lastOp' = NormalizeOp("instagram", company, e, InstagramSubtype(e),
                                     TRUE, InstagramTimestamp(e), 1)
       ELSE /\ UnchangedStore
            /\ lastOp' = NormalizeOp("instagram", company, e, InstagramSubtype(e),
                                     FALSE, 0, 0)
    /\ UnchangedByNormalize

\* ------------------------------------------------------ message retrieval
\* Row numbers of the Messages of a conversation, in insertion order
\* (created_at ascending).
RECURSIVE RowsFrom(_, _)
RowsFrom(cid, i) ==
    IF i > Len(messages) THEN <<>>
    ELSE IF messages[i].conversation = cid THEN <<i>> \o RowsFrom(cid, i + 1)
    ELSE RowsFrom(cid, i + 1)

ConversationRows(cid) == RowsFrom(cid, 1)

Reverse(q) == [i \in 1..Len(q) |-> q[Len(q) + 1 - i]]

Range(q) == {q[i] : i \in 1..Len(q)}

\* ORDER BY timestamp: every arrangement of the rows with non-decreasing
\* timestamp; the database chooses among rows of equal timestamp.
OrderByTimestamp(cid) ==
    LET rows == ConversationRows(cid)
        n == Len(rows)
    IN {q \in [1..n -> Range(rows)] :
          /\ \A i, j \in 1..n : q[i] = q[j] => i = j
          /\ \A i, j \in 1..n :
                i < j => messages[q[i]].timestamp <= messages[q[j]].timestamp}

\* Message.objects.filter(conversation=conversation).order_by('created_at')
OrderByCreatedAt(cid) == ConversationRows(cid)

\* Rows kept by generate_ai_response_task and _process_with_ai.
HistoryLimit == 10

\* Rows of the history _build_context puts in the prompt.
ContextTail == 5

\* order_by('-created_at')[:10]
TaskHistory(cid) ==
    LET q == Reverse(ConversationRows(cid))
    IN SubSeq(q, 1, IF Len(q) < HistoryLimit THEN Len(q) ELSE HistoryLimit)

\* conversation_history[-5:]
BuildContext(history) ==
    SubSeq(history,
           IF Len(history) > ContextTail THEN Len(history) - ContextTail + 1 ELSE 1,
           Len(history))

ReadOp(via, cid, result) ==
    [op |-> "read_messages", via |-> via, conversation |-> cid, result |-> result]

UnchangedByRead ==
    /\ UNCHANGED <<response, platformCalls>>
    /\ UnchangedStore /\ UnchangedDeliveries /\ UnchangedVault /\ UnchangedConfigs
    /\ UnchangedRegistry

\* conversation.messages.all(): the model's Meta.ordering = ['timestamp'].
MessagesAll(cid) ==
    /\ cid \in 1..Len(conversations)
    /\ \E q \in OrderByTimestamp(cid) : lastOp' = ReadOp("default", cid, q)
    /\ UnchangedByRead

\* ConversationViewSet.messages of messaging/views.py.
MessagesEndpoint(cid) ==
    /\ cid \in 1..Len(conversations)
    /\ lastOp' = ReadOp("messages_endpoint", cid, OrderByCreatedAt(cid))
    /\ UnchangedByRead

\* The history query of generate_ai_response_task.
HistoryRead(cid) ==
    /\ cid \in 1..Len(conversations)
    /\ lastOp' = ReadOp("history", cid, TaskHistory(cid))
    /\ UnchangedByRead

\* ------------------------------------------- bridge webhook processing
\* Methods of the adapter classes BridgeManager instantiates.
PlatformServiceMethods ==
    {"send_message", "process_incoming_message", "setup_webhook", "process_webhook"}

\* Keywords of BridgeMessage.objects.create in process_webhook_data.
WebhookMessageKwargs ==
    {"bridge", "external_id", "customer_name", "content", "direction", "status",
     "raw_data"}

\* BridgeManager.process_webhook_data: looks up the 'connected' bridge,
\* initialises its adapter when it is not registered, parses the payload,
\* creates the BridgeMessage and then calls _forward_to_matrix (room message
\* followed by _process_with_ai).  No BridgeWebhook row is written on any
\* branch; every exception is logged and answered False.
ProcessWebhookData(company_id, platform, initOk) ==
    LET k == <<company_id, platform>>
        found == connections[k] = "connected"
        init == IF k \in platform_services
                THEN [connections |-> connections,
                      platform_services |-> platform_services, ok |-> TRUE,
                      constructed |-> 0, initialized |-> "not_run"]
                ELSE InitializeBridge(connections, platform_services, k, initOk)
        parsed == found /\ init.ok /\
                  HasAttribute(PlatformServiceMethods, "parse_webhook_data")
        saved == parsed /\ ModelAccepts(BridgeMessageFields, WebhookMessageKwargs)
        forwarded == saved /\ k \in roomLinked
    IN /\ connections' = IF found THEN init.connections ELSE connections
       /\ platform_services' = IF found THEN init.platform_services
                               ELSE platform_services
       /\ bridgeMessages' =
             IF saved
             THEN Append(bridgeMessages,
                         [bridge |-> k, direction |-> "inbound",
                          ai_processed |-> FALSE, ai_confidence |-> 0])
             ELSE bridgeMessages
       /\ lastOp' = [op |-> "process_webhook_data", company |-> company_id,
                     platform |-> platform, scored |-> FALSE,
                     forwarded |-> forwarded,
                     constructed |-> IF found THEN init.constructed ELSE 0,
                     initialized |-> IF found THEN init.initialized
                                     ELSE "not_run",
                     outcome |-> IF ~found THEN "no_bridge"
                                 ELSE IF ~init.ok THEN "not_initialized"
                                 ELSE IF ~parsed THEN "AttributeError"
                                 ELSE IF ~saved THEN "TypeError"
                                 ELSE IF ~forwarded THEN "no_room"
                                 ELSE "forwarded"]
       /\ UNCHANGED <<response, aiConfig, platformCalls>>
       /\ UnchangedStore /\ UnchangedDeliveries /\ UnchangedVault /\ UnchangedConfigs

\* Methods of BridgeManager.
BridgeManagerMethods ==
    {"initialize_bridge", "send_message", "process_webhook_data",
     "_forward_to_matrix", "_process_with_ai"}

\* matrix_integration.views whatsapp_webhook / telegram_webhook (POST): the
\* bridge is looked up by its key; the WhatsApp view answers 400 unless the
\* bridge is 'connected'; the argument of asyncio.create_task reads
\* bridge_manager.process_incoming_message, which raises AttributeError.
\* Nothing is stored on any branch.
BridgeWebhookPost(owner, platform) ==
    LET k == <<owner, platform>>
        found == connections[k] # "none"
        active == platform = "whatsapp" => connections[k] = "connected"
        processed == found /\ active /\
                     HasAttribute(BridgeManagerMethods, "process_incoming_message")
    IN /\ response' = [op |-> "bridge_webhook", user |-> owner,
                       code |-> IF ~found
                                THEN (IF platform = "whatsapp" THEN 404 ELSE 500)
                                ELSE IF ~active THEN 400
                                ELSE IF ~processed THEN 500 ELSE 200,
                       data |-> {}]
       /\ lastOp' = [op |-> "bridge_webhook", company |-> owner,
                     platform |-> platform,
                     outcome |-> IF ~found THEN "not_found"
                                 ELSE IF ~active THEN "not_active"
                                 ELSE IF ~processed THEN "AttributeError"
                                 ELSE "accepted"]
       /\ UnchangedStore /\ UnchangedDeliveries /\ UnchangedVault /\ UnchangedConfigs
       /\ UnchangedManager

\* ------------------------------------------------------------ specifications
\* The tenant whose configuration the scenarios below walk through.
Operator == "acme"

\* The configuration flow of one tenant for WhatsApp with well-formed
\* request bodies.
OperatorFlow ==
    \/ Setup(Operator, "whatsapp")
    \/ \E id \in ConfigIds : Configure(Operator, id, TRUE, TRUE)
    \/ \E id \in ConfigIds, ok \in BOOLEAN : Test(Operator, id, TRUE, ok)
    \/ \E id \in ConfigIds : Activate(Operator, id)
    \/ \E id \in ConfigIds : Deactivate(Operator, id)

\* The AI paths, with the bridge and AI configuration calls that precede
\* them and inbound Telegram messages to score.
NextAI ==
    \/ BridgeConnect(Operator, "telegram")
    \/ \E u \in Tenants, auto \in BOOLEAN, thr \in Thresholds :
          SetAIConfig(u, Operator, "telegram", auto, thr)
    \/ \E c \in Tenants :
          TelegramWebhookPost(c, [kind |-> "message", message |-> FirstContact])
    \/ \E c \in CompanyIds, hasText, enabled, kw, ok \in BOOLEAN :
          TelegramAIWebhook(c, FirstContact.from, hasText, enabled, kw, ok)
    \/ \E i \in 0..MaxMessages, c \in Confidences, kw \in BOOLEAN :
          GenerateAIResponseTask(i, c, kw)
    \/ \E c \in Confidences : ProcessPendingAIRequests(c)
    \/ \E c \in Confidences, kw, ok \in BOOLEAN :
          ProcessWithAI(Operator, "telegram", c, kw, ok)

SpecAI == InitInbound /\ [][NextAI]_vars

\* The operations that run an AI path.
AIOps ==
    {"process_with_ai", "process_pending_ai_requests", "ai_telegram_webhook",
     "generate_ai_response_task"}

GatingOutcome ==
    [][(/\ lastOp'.op \in AIOps
        /\ lastOp'.scored
        /\ lastOp'.auto_respond /\ lastOp'.threshold = 8
        /\ ~lastOp'.keyword) =>
          IF lastOp'.confidence >= lastOp'.threshold
          THEN platformCalls' = platformCalls + 1
          ELSE /\ platformCalls' = platformCalls
               /\ <<messages', bridgeMessages'>> # <<messages, bridgeMessages>>
               /\ conversations' # conversations]_vars

\* The adapter registry and the send paths, next to the configuration flow.
NextRegistry ==
    \/ OperatorFlow
    \/ \E u \in Tenants : BridgeConnect(u, "whatsapp")
    \/ \E u, o \in Tenants : BridgeDisconnect(u, o, "whatsapp")
    \/ \E t \in Tenants, ok \in BOOLEAN, out \in SendOutcomes :
          BridgeSendMessage(t, "whatsapp", FirstContact.from, ok, out)
    \/ \E p \in PlatformArgs, out \in SendOutcomes :
          SendMessageTask(p, FirstContact.from, Operator, out)

SpecRegistry == InitInbound /\ [][NextRegistry]_vars

\* The operations that send a message out to a platform.
SendOps == {"send_message_task", "matrix_send", "bridge_send"}

\* C7: when an outbound send for an active configuration is answered with an
\* authentication error, the configuration's status becomes 'error' and the
\* adapter of that (tenant, platform) is no longer in the registry.
AuthErrorEvictsAdapter ==
    [][(/\ lastOp'.op \in SendOps
        /\ lastOp'.outcome = "auth_error"
        /\ \E r \in configs : /\ r.company = lastOp'.company
                              /\ r.platform = lastOp'.platform
                              /\ r.status = "active") =>
          /\ \A r \in configs' :
                (r.company = lastOp'.company /\ r.platform = lastOp'.platform)
                    => r.status = "error"
          /\ <<lastOp'.company, lastOp'.platform>> \notin platform_services']_vars

\* The configuration flow next to inbound webhooks and outbound sends.
NextLifecycle ==
    \/ OperatorFlow
    \/ WhatsAppWebhookPost(Operator, << <<(<<FirstContact>>)>> >>)
    \/ \E out \in SendOutcomes :
          SendMessageTask("whatsapp", FirstContact.from, Operator, out)
    \/ \E p \in {"whatsapp", ""}, r \in MatrixResults :
          MatrixSendMessage(Operator, p, FirstContact.from, r)

SpecLifecycle == InitInbound /\ [][NextLifecycle]_vars

\* The operations that take a platform's inbound webhook.
InboundOps == {"whatsapp_webhook", "telegram_webhook", "ai_telegram_webhook"}

\* C8: while a configuration is 'inactive', its adapter is not in the
\* registry, an inbound webhook for its (tenant, platform) creates no
\* Conversation and no Message, and an outbound send for it does not reach
\* the platform.
InactiveStopsProcessing ==
    [][\A r \in configs :
          (r.status = "inactive" /\ r \in configs') =>
             /\ <<r.company, r.platform>> \notin platform_services'
             /\ (/\ lastOp'.op \in InboundOps
                 /\ lastOp'.company = r.company
                 /\ lastOp'.platform = r.platform) =>
                    <<conversations', messages'>> = <<conversations, messages>>
             /\ (/\ lastOp'.op \in SendOps
                 /\ lastOp'.company = r.company
                 /\ lastOp'.platform = r.platform) =>
                    platformCalls' = platformCalls]_vars

\* C9: an outbound send for a (tenant, platform) whose configuration is not
\* 'active', or that has no configuration, makes no call to the platform and
\* appends no Message.
SendNeedsActiveConfig ==
    [][(/\ lastOp'.op \in SendOps
        /\ ~\E r \in configs : /\ r.company = lastOp'.company
                               /\ r.platform = lastOp'.platform
                               /\ r.status = "active") =>
          /\ platformCalls' = platformCalls
          /\ messages' = messages]_vars

\* The authenticated API of two tenants over configurations and
\* conversations; conversations come from inbound Telegram messages.
NextIsolation ==
    \/ \E u \in Tenants : Setup(u, "whatsapp")
    \/ \E u \in Tenants, id \in ConfigIds : Configure(u, id, TRUE, TRUE)
    \/ \E u \in Tenants, id \in ConfigIds, ok \in BOOLEAN : Test(u, id, TRUE, ok)
    \/ \E u \in Tenants, id \in ConfigIds : Activate(u, id)
    \/ \E u \in Tenants, id \in ConfigIds : Deactivate(u, id)
    \/ \E u \in Tenants, id \in ConfigIds : Update(u, id, "active")
    \/ \E u \in Tenants, id \in ConfigIds : Destroy(u, id)
    \/ \E u \in Tenants, id \in ConfigIds : Status(u, id)
    \/ \E c \in Tenants :
          TelegramWebhookPost(c, [kind |-> "message", message |-> FirstContact])
    \/ \E u \in Tenants, pk \in 0..MaxMessages : ConversationRetrieve(u, pk)
    \/ \E u \in Tenants : ConversationList(u)

SpecIsolation == InitInbound /\ [][NextIsolation]_vars

\* The detail operations of the configuration API.
ConfigDetailOps ==
    {"status", "configure", "test", "activate", "deactivate", "update", "destroy"}

\* C10: a request of one tenant for a configuration or a conversation that
\* another tenant owns is answered 404 with none of the owner's data, and
\* leaves the owner's rows as they were.
CrossTenantGets404 ==
    [][(\/ /\ lastOp'.op \in ConfigDetailOps
           /\ \E r \in configs : r.id = lastOp'.id /\ r.company # lastOp'.user
        \/ /\ lastOp'.op = "conversation_retrieve"
           /\ lastOp'.id \in 1..Len(conversations)
           /\ conversations[lastOp'.id].company # lastOp'.user) =>
          /\ response'.code = 404
          /\ response'.data = {}
          /\ configs' = configs
          /\ conversations' = conversations
          /\ messages' = messages]_vars

\* Inbound first-contact webhooks of one tenant, the bridge manager's
\* webhook processing and the AI scoring of stored messages.
NextDurability ==
    \/ WhatsAppWebhookPost(Operator, <<<<<<FirstContact>>>>>>)
    \/ TelegramWebhookPost(Operator, [kind |-> "message", message |-> FirstContact])
    \/ \E p \in Platforms : BridgeConnect(Operator, p)
    \/ \E p \in Platforms, ok \in BOOLEAN : ProcessWebhookData(Operator, p, ok)
    \/ \E i \in 0..MaxMessages, c \in Confidences : GenerateAIResponseTask(i, c, FALSE)

SpecDurability == InitInbound /\ [][NextDurability]_vars

\* The operations that hand an inbound message to the workspace room or to
\* the AI scorer.
ForwardOps == {"process_webhook_data", "generate_ai_response_task"}

\* C15: in every state in which an inbound message has been forwarded to
\* the workspace room or handed to the AI scorer, a webhook event row of
\* the message's tenant and platform is already stored.
DurableBeforeForward ==
    (/\ lastOp.op \in ForwardOps
     /\ lastOp.scored \/ (lastOp.op = "process_webhook_data" /\ lastOp.forwarded)) =>
        \E i \in DOMAIN webhookEvents :
            /\ webhookEvents[i].company = lastOp.company
            /\ webhookEvents[i].platform = lastOp.platform

\* The webhook POST views of the messaging app.
WebhookPostOps == {"whatsapp_webhook", "telegram_webhook"}

\* C16: whatever happens while an inbound webhook POST is handled, the
\* platform is answered with the acknowledgment of a processed payload
\* (status 200).
WebhookAcknowledged ==
    response.op \in WebhookPostOps => response.code = 200

\* ------------------------------------------------- webhook verification
\* Python's None against a string value.
None == [present |-> FALSE, text |-> ""]
Str(t) == [present |-> TRUE, text |-> t]

\* WHATSAPP_VERIFY_TOKEN in the environment: unset, or a token.
EnvVerifyTokens == {None, Str("hub-token")}

\* request.GET.get('hub.verify_token'): absent, the token, another token.
RequestVerifyTokens == {None, Str("hub-token"), Str("other-token")}

\* request.GET.get('hub.challenge').
Challenges == {"1158201444", "7777"}

\* The GET endpoints: the messaging WhatsApp and Instagram views and the
\* matrix_integration whatsapp_webhook view.
VerifyEndpoints == {"whatsapp", "instagram", "bridge_whatsapp"}

\* The token the view compares with: settings.WHATSAPP_VERIFY_TOKEN is
\* os.environ.get (None when unset); settings defines no
\* INSTAGRAM_VERIFY_TOKEN, so getattr yields its default None.
ConfiguredVerifyToken(endpoint, env) ==
    IF endpoint = "instagram" THEN None ELSE env

\* The GET handshake: the challenge is returned when hub.verify_token equals
\* the configured value, else 403 (messaging views) or 400 (bridge view).
WebhookVerify(endpoint, env, token, challenge) ==
    LET configured == ConfiguredVerifyToken(endpoint, env)
    IN /\ response' =
             IF token = configured
             THEN [op |-> "webhook_verify", user |-> endpoint, code |-> 200,
                   data |-> {challenge}]
             ELSE [op |-> "webhook_verify", user |-> endpoint,
                   code |-> IF endpoint = "bridge_whatsapp" THEN 400 ELSE 403,
                   data |-> {}]
       /\ lastOp' = [op |-> "webhook_verify", endpoint |-> endpoint,
                     configured |-> configured, token |-> token,
                     challenge |-> challenge]
       /\ UnchangedStore /\ UnchangedDeliveries /\ UnchangedVault /\ UnchangedConfigs
       /\ UnchangedManager

\* Verification handshakes between first-contact deliveries of one tenant.
NextVerify ==
    \/ \E e \in VerifyEndpoints, env \in EnvVerifyTokens,
          t \in RequestVerifyTokens, ch \in Challenges : WebhookVerify(e, env, t, ch)
    \/ WhatsAppWebhookPost(Operator, <<<<<<FirstContact>>>>>>)
    \/ TelegramWebhookPost(Operator, [kind |-> "message", message |-> FirstContact])

SpecVerify == InitInbound /\ [][NextVerify]_vars

\* C17: the handshake answers with the challenge exactly when a verify
\* token is configured and the request's hub.verify_token equals it; in every
\* other case it answers with an error status and no challenge.
ChallengeOnlyForConfiguredToken ==
    lastOp.op = "webhook_verify" =>
        IF lastOp.configured.present /\ lastOp.token = lastOp.configured
        THEN response.code = 200 /\ response.data = {lastOp.challenge}
        ELSE response.code >= 400 /\ response.data = {}

\* C18: at most one configuration row exists for every tenant and platform
\* under interleaved setup calls and direct creations; a setup or creation
\* that finds a row creates none and changes no status, returning the row's
\* id, or an error when the row is active or the creation is direct.
OneConfigPerTenantPlatform ==
    /\ [](\A c \in Tenants, p \in Platforms : Cardinality(ConfigFor(c, p)) <= 1)
    /\ [][/\ lastOp'.op \in {"setup", "create"} => configs \subseteq configs'
          /\ (lastOp'.op = "setup" /\
              lastOp'.outcome \in {"exists", "IntegrityError"}) =>
                /\ configs' = configs
                /\ \E r \in configs :
                      /\ r.id = lastOp'.id
                      /\ IF r.status = "active"
                         THEN response'.code = 400 /\ response'.data = {}
                         ELSE response'.code = 200 /\ response'.data = {r.id}
          /\ (lastOp'.op = "create" /\ lastOp'.outcome = "IntegrityError") =>
                /\ configs' = configs
                /\ response'.code >= 400]_vars

\* Two setup calls of one tenant and platform both missed the SELECT, the
\* later INSERT was refused, and both calls have returned the one row.
SetupRaceWitness ==
    /\ AllDone
    /\ lastOp.op = "setup" /\ lastOp.outcome = "IntegrityError"
    /\ \A d1, d2 \in Deliveries :
          /\ payload[d1].company = payload[d2].company
          /\ payload[d1].platform = payload[d2].platform
          /\ conv[d1] = conv[d2]
    /\ Cardinality(configs) = 1
    /\ response.code = 200

\* C19: a configuration row, once created, exists in every later state: no
\* operation of the configuration API removes it.
ConfigRowsPersist ==
    [][\A r \in configs : \E q \in configs' : q.id = r.id]_vars

\* The configuration flow and the bridge connection of one tenant next to
\* its inbound WhatsApp webhooks on the messaging and on the bridge path.
NextErrorInbound ==
    \/ OperatorFlow
    \/ WhatsAppWebhookPost(Operator, <<<<<<FirstContact>>>>>>)
    \/ \E p \in Platforms : BridgeConnect(Operator, p)
    \/ \E ok \in BOOLEAN :
          BridgeSendMessage(Operator, "whatsapp", FirstContact.from, ok, "ok")
    \/ \E p \in Platforms : BridgeWebhookPost(Operator, p)
    \/ \E p \in Platforms, ok \in BOOLEAN : ProcessWebhookData(Operator, p, ok)

SpecErrorInbound == InitInbound /\ [][NextErrorInbound]_vars

\* The inbound operations of the bridge path.
BridgeInboundOps == {"bridge_webhook", "process_webhook_data"}

\* C20: an inbound webhook for a (tenant, platform) in status 'error' is
\* recorded like one for an active configuration (conversation upserted,
\* every message appended); one for an inactive configuration is rejected
\* and records nothing.
ErrorStillRecorded ==
    [][/\ \A r \in configs :
             (/\ lastOp'.op = "whatsapp_webhook"
              /\ lastOp'.company = r.company
              /\ lastOp'.platform = r.platform) =>
                /\ r.status = "error" =>
                      /\ lastOp'.created = Len(lastOp'.batch)
                      /\ Len(messages') = Len(messages) + Len(lastOp'.batch)
                      /\ ConvExists(conversations', r.company, FirstContact.from,
                                    r.platform)
                /\ r.status = "inactive" =>
                      /\ response'.code >= 400
                      /\ <<conversations', messages'>> = <<conversations, messages>>
       /\ (/\ lastOp'.op \in BridgeInboundOps
           /\ connections[<<lastOp'.company, lastOp'.platform>>] = "error") =>
                bridgeMessages' # bridgeMessages]_vars

\* Text messages of one customer with platform timestamps that are not in
\* the future, and the three ways their conversation is read back.
NextTimeline ==
    \/ \E t \in {0, 8, 9} :
          /\ Len(messages) < MaxTimeline
          /\ WhatsAppProcessIncoming(Operator, WhatsAppEvent("text", TRUE, t))
    \/ MessagesAll(1)
    \/ MessagesEndpoint(1)
    \/ HistoryRead(1)

SpecTimeline == InitInbound /\ [][NextTimeline]_vars

\* The rows of a conversation by timestamp ascending, rows of equal
\* timestamp in insertion order.
ByTimestampThenInsertion(cid) ==
    CHOOSE q \in OrderByTimestamp(cid) :
        \A i, j \in 1..Len(q) :
            (i < j /\ messages[q[i]].timestamp = messages[q[j]].timestamp)
                => q[i] < q[j]

\* C21: every retrieval of a conversation's messages returns them by
\* timestamp ascending, messages of equal timestamp in insertion order.
RetrievalOrder ==
    lastOp.op = "read_messages" =>
        lastOp.result = ByTimestampThenInsertion(lastOp.conversation)

\* C22: a send whose platform call succeeded appends exactly one outgoing
\* Message to the conversation of (tenant, recipient, platform) (on the
\* bridge path: one outbound BridgeMessage); a send whose call failed appends
\* nothing and answers with an error.
SendOutcomeRecorded ==
    [][lastOp'.op \in SendOps =>
          IF lastOp'.outcome = "ok"
          THEN \/ /\ Len(messages') = Len(messages) + 1
                  /\ messages'[Len(messages')].direction = "outgoing"
                  /\ ConvExists(conversations', lastOp'.company, lastOp'.to,
                                lastOp'.platform)
                  /\ messages'[Len(messages')].conversation =
                        ConvGet(conversations', lastOp'.company, lastOp'.to,
                                lastOp'.platform)
               \/ /\ lastOp'.op = "bridge_send"
                  /\ Len(bridgeMessages') = Len(bridgeMessages) + 1
          ELSE /\ messages' = messages
               /\ bridgeMessages' = bridgeMessages
               /\ lastOp'.op = "matrix_send" => response'.code >= 400]_vars

\* The configuration flow of Signal rows for both tenants.
NextSignal ==
    \/ \E u \in Tenants : Setup(u, "signal")
    \/ \E u \in Tenants, id \in ConfigIds, valid, stored \in BOOLEAN :
          Configure(u, id, valid, stored)
    \/ \E u \in Tenants, id \in ConfigIds, cli \in SignalCliResults :
          TestSignal(u, id, cli)
    \/ \E u \in Tenants, id \in ConfigIds : Activate(u, id)
    \/ \E u \in Tenants, id \in ConfigIds : Deactivate(u, id)

SpecSignal == InitInbound /\ [][NextSignal]_vars

\* C23: a signal-cli run that times out is answered to the caller as a
\* failure and leaves the status of the configuration row as it was.
SignalTimeoutKeepsStatus ==
    [][(lastOp'.op = "test_signal" /\ lastOp'.cli = "TimeoutExpired") =>
          /\ response'.code >= 400
          /\ StatusOf(configs', lastOp'.id) = StatusOf(configs, lastOp'.id)]_vars

\* The operations that look a bridge key up in the adapter registry.
RegistryOps == {"bridge_send", "process_webhook_data"}

\* An operation reached the registry and found the key of its bridge absent.
FirstAccess(op, k) ==
    /\ k \notin platform_services
    /\ IF op = "bridge_send" THEN connections[k] # "none"
       ELSE connections[k] = "connected"

\* C24: whenever tasks find the key of a bridge absent from the adapter
\* registry, one adapter instance is constructed for the key: the access that
\* found it absent builds exactly one, and no later access builds another.
OneAdapterPerKey ==
    [][lastOp'.op \in RegistryOps =>
          LET k == <<lastOp'.company, lastOp'.platform>> IN
          /\ FirstAccess(lastOp'.op, k) => lastOp'.constructed = 1
          /\ k \in platform_services => lastOp'.constructed = 0]_vars

\* The inbound webhooks of one tenant on the messaging and on the bridge
\* path, every enabled handler eventually running.
SpecWebhookOutcome ==
    InitInbound /\ [][NextErrorInbound]_vars /\ WF_vars(NextErrorInbound)

\* A webhook event row carries an outcome: processed, or a failed attempt
\* counted together with its error text.
HasOutcome(row) ==
    \/ row.processed
    \/ row.processing_attempts > 0 /\ row.error_message # ""

\* C25: every received inbound webhook eventually has an outcome recorded on
\* a webhook event row: processed, or a counted attempt with its error text.
WebhookOutcomeRecorded ==
    (lastOp.op \in WebhookPostOps \cup BridgeInboundOps) ~>
        (\E i \in 1..Len(webhookEvents) : HasOutcome(webhookEvents[i]))

\* The bridge connections of both tenants: connect, background
\* initialisation, sends and inbound payloads, disconnect.
NextBridgeInit ==
    \/ \E u \in Tenants, p \in Platforms : BridgeConnect(u, p)
    \/ \E u \in Tenants, p \in Platforms : InitializeBridgeConnectionTask(u, p)
    \/ \E u \in Tenants, ok \in BOOLEAN :
          BridgeSendMessage(u, "whatsapp", FirstContact.from, ok, "ok")
    \/ \E u \in Tenants, p \in Platforms, ok \in BOOLEAN :
          ProcessWebhookData(u, p, ok)
    \/ \E u \in Tenants : BridgeDisconnect(u, u, "whatsapp")

SpecBridgeInit == InitInbound /\ [][NextBridgeInit]_vars

\* The operations that initialise a bridge.
InitializeOps == RegistryOps \cup {"initialize_bridge_connection"}

\* C27: a bridge connection becomes 'connected' only in an operation whose
\* initialize_connection returned success, and is 'error' after an operation
\* whose initialisation returned failure or raised.
ConnectedOnlyAfterSuccess ==
    [][/\ \A k \in DOMAIN connections :
             (connections'[k] = "connected" /\ connections[k] # "connected") =>
                /\ lastOp'.op \in InitializeOps
                /\ lastOp'.initialized = "success"
       /\ (lastOp'.op \in InitializeOps /\
           lastOp'.initialized \in {"failure", "raised"}) =>
             connections'[<<lastOp'.company, lastOp'.platform>>] = "error"]_vars

NextNormalize ==
    \/ \E m \in WhatsAppEvents :
          Len(messages) < MaxNormalized /\ WhatsAppProcessIncoming(Operator, m)
    \/ \E u \in TelegramEvents :
          Len(messages) < MaxNormalized /\ TelegramProcessWebhook(Operator, u)
    \/ \E e \in InstagramEvents :
          Len(messages) < MaxNormalized /\ InstagramProcessWebhook(Operator, e)

SpecNormalize == InitInbound /\ [][NextNormalize]_vars

\* The event subtypes no message is to be made of: button presses and
\* events without text or media.
DroppedSubtypes == {"postback", "callback_query", "reaction"}

\* C28: handling an Instagram postback, a Telegram callback_query or a
\* WhatsApp event without text or supported media (a reaction) creates no
\* Message.
UnsupportedDropped ==
    [][(lastOp'.op = "process_incoming" /\ lastOp'.subtype \in DroppedSubtypes)
          => messages' = messages]_vars

\* How far past the arrival time a platform timestamp may lie.
FarFuture == 50

\* A platform timestamp is plausible: after the epoch and not far in the
\* future of the arrival time.
Plausible(ts, arrival) == ts > 0 /\ ts < arrival + FarFuture

\* C29: handling a message event stores one Message whose timestamp is the
\* platform timestamp when that is present and plausible, and the arrival
\* time when it is absent, not after the epoch, or far in the future.
StoredTimestampPlausible ==
    [][(lastOp'.op = "process_incoming" /\
        lastOp'.subtype \notin {"postback", "callback_query"}) =>
          /\ Len(messages') = Len(messages) + 1
          /\ messages'[Len(messages')].timestamp =
                IF lastOp'.has_timestamp /\
                   Plausible(lastOp'.platform_timestamp, lastOp'.arrival)
                THEN lastOp'.platform_timestamp
                ELSE lastOp'.arrival]_vars

\* One conversation growing by text messages, its messages scored by
\* generate_ai_response_task.
NextHistory ==
    \/ \E t \in {8, 9} :
          WhatsAppProcessIncoming(Operator, WhatsAppEvent("text", TRUE, t))
    \/ \E i \in 1..MaxHistoryRows, c \in {5, 9} :
          GenerateAIResponseTask(i, c, FALSE)

SpecHistory == InitInbound /\ [][NextHistory]_vars

\* The history that reaches the prompt of the scorer for a conversation:
\* the rows the task selects, cut by _build_context.
PromptHistory(cid) == BuildContext(TaskHistory(cid))

\* h is the most recent rows of 'rows', oldest first: a non-empty suffix.
RecentOldestFirst(h, rows) ==
    \E n \in 1..Len(rows) : h = SubSeq(rows, Len(rows) - n + 1, Len(rows))

\* C30: the history handed to the scorer for an inbound message is the most
\* recent messages of its conversation, the newest included, oldest first;
\* no older message stands in place of a newer one.
HistoryIsRecentOldestFirst ==
    (lastOp.op = "generate_ai_response_task" /\ lastOp.outcome = "scored") =>
        LET cid == ConvGet(conversations, lastOp.company, lastOp.to,
                           lastOp.platform)
        IN /\ RecentOldestFirst(TaskHistory(cid), ConversationRows(cid))
           /\ RecentOldestFirst(PromptHistory(cid), ConversationRows(cid))

\* The operations that handle an inbound webhook payload up to its answer and
\* hold a call of the AI scorer in their code.
ScoringWebhookOps == {"ai_telegram_webhook", "process_webhook_data"}

ConfigurationPrecedesConversation ==
    [][\A i \in (Len(conversations) + 1)..Len(conversations') :
          ConfigFor(conversations'[i].company, conversations'[i].platform) # {}]_vars

\* Messages arriving and being sent for one tenant, the AI task, and the
\* requests of both tenants to the message API.
NextMessages ==
    \/ WhatsAppWebhookPost(Operator, << <<(<<FirstContact>>)>> >>)
    \/ \E r \in MatrixResults :
          MatrixSendMessage(Operator, "whatsapp", FirstContact.from, r)
    \/ \E i \in 0..MaxMessages, c \in {5, 9} : GenerateAIResponseTask(i, c, FALSE)
    \/ \E u \in Tenants, a \in ShadowedMessageViewSetActions, pk \in 1..MaxMessages :
          MessageRequest(u, a, pk)

SpecMessages == InitInbound /\ [][NextMessages]_vars

ClearingOps == {"configure", "test", "test_signal"}

\* C34: a configuration with status error carries a non-empty error message,
\* and one that configure or test has just moved to configured or active
\* carries none.
ErrorCarriesMessage ==
    [][/\ \A r \in configs' : r.status = "error" => r.error_message # ""
       /\ (lastOp'.op \in ClearingOps /\ lastOp'.outcome \in {"configured", "passed"})
             => \A r \in configs' : r.id = lastOp'.id => r.error_message = ""]_vars

\* ------------------------------------------------------ Matrix room events
\* self.user_id: settings.MATRIX_USER_ID, the account the client syncs as.
ServiceUserId == "@nexus_bot:matrix.nexus.local"

\* The sender of a room event: the service itself, or a bridge puppet.
EventSenders == {ServiceUserId, "@whatsapp_1555:matrix.nexus.local"}

\* get_bridge_info: the content of the room's m.bridge.info state event, or
\* None; "" stands for a key the content lacks.
BridgeInfos ==
    [found : BOOLEAN, platform : {"", "whatsapp"}, external_id : {"", "+1555"},
     company_id : {"", "unknown"} \cup Tenants]

\* all([platform, external_id, company_id])
BridgeInfoComplete(info) ==
    info.platform # "" /\ info.external_id # "" /\ info.company_id # ""

\* The names django.utils.timezone binds that the services read.  The
\* migrations are generated by Django 5.2.3; the alias utc was removed in 5.0.
DjangoTimezoneNames == {"now", "datetime", "timedelta", "timezone"}

\* The tasks matrix_integration/tasks.py defines.
MatrixTaskNames ==
    {"update_bridge_status", "process_pending_ai_requests",
     "send_message_through_bridge", "process_incoming_webhook",
     "cleanup_old_messages", "initialize_bridge_connection"}

\* An on_message without the check of the sender.
IsOwnMessageNever(sender) == FALSE

\* on_message: if event.sender == self.user_id: return
IsOwnMessage(sender) == sender = ServiceUserId

MatrixEventOp(sender, info, outcome, ai_triggered) ==
    [op |-> "on_message", sender |-> sender, found |-> info.found,
     complete |-> BridgeInfoComplete(info), outcome |-> outcome,
     ai_triggered |-> ai_triggered]

\* on_message followed by process_bridge_message.  The conversation is
\* get_or_created first; the keywords of Message.objects.create are evaluated
\* next and timezone.utc raises AttributeError, which the handler logs.  With
\* the message stored, the AI task is imported from ..tasks when the company
\* settings have ai_enabled and auto_response_enabled.
OnMessage(sender, info, auto_response) ==
    /\ Len(messages) < MaxMessages
    /\ IF IsOwnMessage(sender)
       THEN /\ lastOp' = MatrixEventOp(sender, info, "own", FALSE)
            /\ UNCHANGED <<conversations, messages>>
       ELSE IF ~info.found
       THEN /\ lastOp' = MatrixEventOp(sender, info, "no_bridge_info", FALSE)
            /\ UNCHANGED <<conversations, messages>>
       ELSE IF ~BridgeInfoComplete(info)
       THEN /\ lastOp' = MatrixEventOp(sender, info, "incomplete", FALSE)
            /\ UNCHANGED <<conversations, messages>>
       ELSE IF info.company_id \notin Tenants
       THEN /\ lastOp' = MatrixEventOp(sender, info, "DoesNotExist", FALSE)
            /\ UNCHANGED <<conversations, messages>>
       ELSE LET goc == GetOrCreate(conversations, info.company_id,
                                   info.external_id, info.platform) IN
            /\ conversations' = goc.conversations
            /\ IF ~HasAttribute(DjangoTimezoneNames, "utc")
               THEN /\ lastOp' = MatrixEventOp(sender, info, "AttributeError", FALSE)
                    /\ UNCHANGED messages
               ELSE /\ messages' = Append(messages,
                          NewMessage(goc.id, "incoming", "none", "matrix"))
                    /\ lastOp' = MatrixEventOp(sender, info, "stored",
                          auto_response /\ "generate_ai_response" \in MatrixTaskNames)
    /\ UNCHANGED <<response, platformCalls>>
    /\ UnchangedDeliveries /\ UnchangedVault /\ UnchangedConfigs /\ UnchangedRegistry

\* An agent sends through the bridge and the room's events come back to the
\* handler, the service's own among them.
NextMatrixEvents ==
    \/ \E r \in MatrixResults :
          MatrixSendMessage(Operator, "whatsapp", FirstContact.from, r)
    \/ \E s \in EventSenders, info \in BridgeInfos, a \in BOOLEAN :
          OnMessage(s, info, a)

SpecMatrixEvents == InitInbound /\ [][NextMatrixEvents]_vars

\* C36: a room event sent by the service's own user creates no Conversation
\* and no Message and triggers no AI; an event is recorded only when it comes
\* from another sender in a room with complete bridge info.
EchoNeverRecorded ==
    [][lastOp'.op = "on_message" =>
          /\ lastOp'.sender = ServiceUserId =>
                /\ conversations' = conversations
                /\ messages' = messages
                /\ ~lastOp'.ai_triggered
          /\ (conversations' # conversations \/ messages' # messages) =>
                /\ lastOp'.sender # ServiceUserId
                /\ lastOp'.found /\ lastOp'.complete]_vars

\* The echo of an agent's message has been dropped in a room whose bridge
\* info is complete, after an event of the customer was processed.
EchoDropped ==
    /\ lastOp.op = "on_message"
    /\ lastOp.outcome = "own"
    /\ lastOp.found /\ lastOp.complete
    /\ \E i \in 1..Len(messages) : messages[i].origin = "agent"
    /\ \E i \in 1..Len(conversations) : conversations[i].company = "globex"

\* ------------------------------------------ concurrent bridge room lookups
\* f"#{platform}_{external_id}_{company_id}:matrix.nexus.local"
RoomAlias(platform, external_id, company_id) ==
    <<platform, external_id, company_id>>

\* The rooms the homeserver holds under an alias.
RoomsOf(alias) == {i \in 1..Len(matrixRooms) : matrixRooms[i] = alias}

\* client.room_create(alias=...): the homeserver refuses an alias that is
\* taken (the response is a RoomCreateError, which has no room_id).
AliasInUse(alias) == RoomsOf(alias) # {}

\* The two entry points that look a bridge room up.
RoomCalls == {"get_or_create_bridge_room", "send_message_via_bridge"}

CallAlias(d) ==
    RoomAlias(payload[d].platform, payload[d].from, payload[d].company)

RoomOp(d, step, outcome) ==
    [op |-> "get_or_create_bridge_room", call |-> payload[d].call,
     delivery |-> d, step |-> step, outcome |-> outcome]

UnchangedByRoomCall ==
    /\ UNCHANGED <<payload, webhookEvents, response, platformCalls>>
    /\ UnchangedStore /\ UnchangedVault /\ UnchangedConfigs /\ UnchangedRegistry

\* get_or_create_bridge_room, first await: room_resolve_alias; a response
\* with a room_id is returned at once.
RoomResolve(d) ==
    /\ pc[d] = "room_resolve"
    /\ IF RoomsOf(CallAlias(d)) # {}
       THEN /\ conv' = [conv EXCEPT ![d] = CHOOSE i \in RoomsOf(CallAlias(d)) : TRUE]
            /\ pc' = [pc EXCEPT ![d] = "room_returned"]
            /\ lastOp' = RoomOp(d, "room_resolve_alias", "resolved")
       ELSE /\ pc' = [pc EXCEPT ![d] = "room_create"]
            /\ lastOp' = RoomOp(d, "room_resolve_alias", "not_found")
            /\ UNCHANGED conv
    /\ UNCHANGED matrixRooms
    /\ UnchangedByRoomCall

\* get_or_create_bridge_room, second await: room_create, then room_put_state
\* and return response.room_id; a response without room_id falls through to
\* return None (conv stays 0).
RoomCreate(d) ==
    /\ pc[d] = "room_create"
    /\ IF AliasInUse(CallAlias(d))
       THEN /\ lastOp' = RoomOp(d, "room_create", "RoomCreateError")
            /\ UNCHANGED <<matrixRooms, conv>>
       ELSE /\ matrixRooms' = Append(matrixRooms, CallAlias(d))
            /\ conv' = [conv EXCEPT ![d] = Len(matrixRooms) + 1]
            /\ lastOp' = RoomOp(d, "room_create", "created")
    /\ pc' = [pc EXCEPT ![d] = "room_returned"]
    /\ UnchangedByRoomCall

\* Every delivery is a call about to resolve the alias of its conversation.
InitRooms ==
    /\ InitStore
    /\ pc = [d \in Deliveries |-> "room_resolve"]
    /\ conv = [d \in Deliveries |-> 0]
    /\ payload \in [Deliveries ->
                      [company : {Operator}, platform : {"whatsapp"},
                       from : ExternalIds, call : RoomCalls]]

NextRooms == \E d \in Deliveries : RoomResolve(d) \/ RoomCreate(d)

SpecRooms == InitRooms /\ [][NextRooms]_vars

Malformations == {"none", "timestamp", "body"}

BatchMessageData ==
    [from : {FirstContact.from}, id : MessageIds, malformed : Malformations]

Batches == UNION {[1..n -> BatchMessageData] : n \in 1..MaxBatch}

\* _process_incoming_message for one message_data: the rows it leaves and
\* whether it raised.
ProcessOne(st, m, company) ==
    IF m.malformed = "timestamp"
    THEN [conversations |-> st.conversations, messages |-> st.messages,
          raised |-> TRUE]
    ELSE LET goc == GetOrCreate(st.conversations, company, m.from, "whatsapp") IN
         IF m.malformed = "body"
         THEN [conversations |-> goc.conversations, messages |-> st.messages,
               raised |-> TRUE]
         ELSE [conversations |-> goc.conversations,
               messages |-> Append(st.messages,
                                   NewMessage(goc.id, "incoming", m.id, "webhook")),
               raised |-> FALSE]

\* for message_data in messages: self._process_incoming_message(...); the
\* first exception leaves the loop, with no transaction around it.
RECURSIVE ProcessBatch(_, _, _)
ProcessBatch(st, ms, company) ==
    IF ms = <<>> THEN [conversations |-> st.conversations,
                       messages |-> st.messages, raised |-> FALSE]
    ELSE LET one == ProcessOne(st, Head(ms), company) IN
         IF one.raised THEN one
         ELSE ProcessBatch(one, Tail(ms), company)

BatchOp(company_id, ms, status) ==
    [op |-> "process_webhook", company |-> company_id, platform |-> "whatsapp",
     batch |-> ms, status |-> status]

\* WhatsAppService.process_webhook: 'failed' without an entry, for an unknown
\* company, or when a message raises; 'processed' otherwise.
ProcessWebhook(company_id, has_entry, ms) ==
    /\ Len(messages) + Len(ms) <= MaxMessages
    /\ IF ~has_entry \/ company_id \notin Tenants
       THEN /\ lastOp' = BatchOp(company_id, ms, "failed")
            /\ UNCHANGED <<conversations, messages>>
       ELSE LET st == ProcessBatch(Store, ms, company_id) IN
            /\ conversations' = st.conversations
            /\ messages' = st.messages
            /\ lastOp' = BatchOp(company_id, ms,
                                 IF st.raised THEN "failed" ELSE "processed")
    /\ UNCHANGED <<response, platformCalls>>
    /\ UnchangedDeliveries /\ UnchangedVault /\ UnchangedConfigs /\ UnchangedRegistry

NextBatch ==
    \E c \in {Operator, "unknown"}, e \in BOOLEAN, ms \in Batches :
       ProcessWebhook(c, e, ms)

SpecBatch == InitInbound /\ [][NextBatch]_vars

\* C38: when process_webhook returns failed, no Conversation and no Message
\* created while handling that payload remains; it returns processed only
\* if every message of the payload was stored.
BatchAllOrNothing ==
    [][lastOp'.op = "process_webhook" =>
          /\ lastOp'.status = "failed" =>
                conversations' = conversations /\ messages' = messages
          /\ lastOp'.status = "processed" =>
                Len(messages') = Len(messages) + Len(lastOp'.batch)]_vars

\* One tenant takes its configurations through the flow and calls activate
\* in every status.
NextActivate ==
    \/ \E p \in Platforms : Setup(Operator, p)
    \/ \E id \in ConfigIds, stored \in BOOLEAN : Configure(Operator, id, TRUE, stored)
    \/ \E id \in ConfigIds, ok \in BOOLEAN : Test(Operator, id, TRUE, ok)
    \/ \E id \in ConfigIds : Activate(Operator, id)
    \/ \E id \in ConfigIds : Deactivate(Operator, id)
    \/ \E id \in ConfigIds, st \in StatusChoices : Update(Operator, id, st)

SpecActivate == InitInbound /\ [][NextActivate]_vars

\* C35: activate on a configuration whose status is not configured answers
\* with an error and leaves its status, setup_completed_at and last_sync_at
\* unchanged; an activate that does not end active leaves a configured row
\* configured.
RefusedActivateChangesNothing ==
    [][(lastOp'.op = "activate" /\ lastOp'.outcome # "not_found") =>
          /\ lastOp'.outcome = "refused" =>
                /\ configs' = configs
                /\ response'.code = 400
                /\ \A r \in configs : r.id = lastOp'.id => r.status # "configured"
          /\ \A r \in configs :
                (r.id = lastOp'.id /\ r.status # "configured") =>
                   lastOp'.outcome = "refused"
          /\ lastOp'.outcome # "active" =>
                \A r \in configs :
                   (r.id = lastOp'.id /\ r.status = "configured") => r \in configs']_vars

\* activate was refused on a row that a passed test had made active and a
\* deactivate had made inactive: the timestamps of the test are still there.
ActivateRefused ==
    /\ lastOp.op = "activate"
    /\ lastOp.outcome = "refused"
    /\ response.code = 400
    /\ \E r \in configs :
          /\ r.id = lastOp.id
          /\ r.status = "inactive"
          /\ r.setup_completed_at = "now"

====
